---------------------------- MODULE Spec2Model ----------------------------
(***************************************************************************)
(* State-machine model of the document-parsing pipeline:                   *)
(*   - PageNumberTracker.resolve          (processing/page_no_tracker.py)  *)
(*   - run_single_page / run_deep_extraction        (modules/extract.py)   *)
(*   - the page loop of main                                  (main.py)    *)
(*   - run_scout_sync                           (modules/scout_sync.py)    *)
(*   - ContextTracker.update                    (semantics/semantics.py)   *)
(*   - StructuralMatcher.resolve_hierarchy                                  *)
(*                                      (processing/structural_matcher.py)  *)
(*   - TOCProcessorAPI.transform_logic            (processing/toc_api.py)   *)
(*   - bind_figures, SemanticClassifier.classify                            *)
(*                                              (semantics/semantics.py)   *)
(*   - finalize_output                           (exporters/exporter.py)   *)
(*   - get_toc_metadata and the block loops of run_single_page and main    *)
(*                                          (modules/extract.py, main.py)  *)
(*   - run_sync_phase                     (processing/pipeline_utils.py)   *)
(*   - find_printed_page_no                 (processing/page_strategy.py)  *)
(*   - get_unified_sorting               (processing/optimize_layout.py)   *)
(* Each component has its own specification over the shared variables; the *)
(* variables of the components a specification does not drive stay at     *)
(* their initial values.                                                   *)
(***************************************************************************)
EXTENDS Integers, Sequences, FiniteSets, TLC

VARIABLES
    \* ---- PageNumberTracker ----
    offset,          \* tracker.offset: None or Some(int)
    t_called,        \* TRUE once resolve has been called (tracker specification)
    t_page,          \* pdf_page argument of the last resolve call
    t_detected,      \* detected_printed argument of the last resolve call
    t_pre,           \* tracker.offset before the last resolve call
    t_ret,           \* value returned by the last resolve call
    \* ---- run_deep_extraction ----
    e_pc,            \* position in the generator: idle/loop/except/finally/done/raised
    start_page,      \* argument start_page
    total_pages,     \* pdf_loader.get_total_pages()
    page_no,         \* loop variable of the page loop
    pending_buffer,  \* list of (pdf page, blocks) awaiting the offset
    offset_locked,   \* local flag offset_locked
    block_counter,   \* local block_counter
    emitted,         \* batches yielded so far, in order
    processed,       \* pages whose loop body ran to its end, in order
    raised_page,     \* page whose processing raised, 0 when none
    \* ---- main ----
    m_pc,            \* idle/loop/aborted/finalized
    m_total_pages,   \* total_pages of main
    m_page_no,       \* page_no of main's loop
    is_discovering_toc,
    scholar_mode_active,
    target_anchor,   \* None or Some(anchor)
    full_toc_buffer,
    m_steps,         \* phases whose code ran in the last loop iteration
    final_output,    \* pages whose blocks were appended to final_output
    m_errors,        \* page exceptions caught so far by the per-page guard
    pdf_open,        \* pdf_loader holds an open document
    json_written,    \* None, or Some(the final_output that save_json wrote)
    \* ---- run_scout_sync ----
    s_pc,            \* idle/loop/summary/returned
    s_total_pages,
    s_page_no,
    state,           \* the state dict of run_scout_sync
    s_accepted,      \* pages on which a scout trigger was accepted (probe gave an anchor)
    s_probe_failures,\* scout triggers so far whose TOC probe gave nothing
    s_result,        \* return value: None or Some(report)
    \* ---- ContextTracker ----
    ctx,             \* ContextTracker.state
    c_called,        \* TRUE once update has been called
    c_role,          \* role argument of the last update call
    c_text,          \* text argument of the last update call
    c_pre,           \* ContextTracker.state before the last update call
    \* ---- StructuralMatcher ----
    mt_index,        \* matcher.index: the list of TOC entries
    mt_called,       \* TRUE once resolve_hierarchy has been called
    mt_page,         \* printed_page_no argument of the last call
    mt_text,         \* chapter_verify_text argument of the last call
    mt_fuzzy,        \* TRUE when the last call reached get_close_matches
    mt_ret,          \* value returned by the last call: None or Some(entry)
    \* ---- TOCProcessorAPI.transform_logic ----
    tc_pc,           \* idle/scan/returned
    tc_page,         \* pages of raw_pages entered so far
    tc_lines,        \* lines read so far, over all pages
    tc_line,         \* the line read by the last step, None when it had no chapter id
    last_chapter_id,
    active_unit_id,  \* None or Some(int)
    structured_data, \* the list of entries
    tc_pre,          \* structured_data as it was before the back-fill loop
    \* ---- bind_figures ----
    bf_called,       \* TRUE once bind_figures has been called
    bf_blocks,       \* the argument blocks, as it was at the call
    bf_ret,          \* the list returned
    \* ---- SemanticClassifier.classify ----
    cl_called,       \* TRUE once classify has been called
    cl_text,         \* the argument text
    cl_ret,          \* the dict returned
    \* ---- finalize_output ----
    fo_pc,           \* idle/entry/save/remove/debug/done/raised
    fo_total_blocks, \* state["total_blocks"]
    fo_temp,         \* the staging file at temp_path, None when absent
    fo_temp0,        \* the staging file as it was when finalize_output was entered
    fo_final,        \* the file at final_path: absent/stale/partial/complete
    fo_final_data,   \* number of records in final_data
    fo_debug,        \* cfg["DEBUG_IMAGE"] is set and there are images
    fo_debug_saved   \* the debug PDF was saved

VARIABLES
    \* ---- get_toc_metadata ----
    gm_called,       \* TRUE once get_toc_metadata has been called
    gm_in,           \* the call's arguments <<h_data, current_page>>
    gm_ret,          \* the dict it returned: None or Some([chapter_id, chapter_name])
    \* ---- run_sync_phase ----
    sy_called,       \* TRUE once run_sync_phase has been called
    sy_in,           \* the call's arguments <<target_anchor, boxes>>
    sy_ret,          \* None or Some(the boolean it returned)
    \* ---- find_printed_page_no ----
    ps_called,       \* TRUE once find_printed_page_no has been called
    ps_in,           \* the call's arguments <<strategy, boxes>>
    ps_ret,          \* None or Some(the value it returned)
    \* ---- get_unified_sorting ----
    us_called,       \* TRUE once get_unified_sorting has been called
    us_in,           \* the call's argument <<boxes>>
    us_ret,          \* None or Some(the list it returned)
    \* ---- the block loops of main and run_single_page ----
    bl_called,       \* TRUE once the loop has run over the page
    bl_in,           \* <<which loop, the page's boxes>>
    bl_ret           \* None or Some(page_blocks)

trackerVars == <<offset, t_called, t_page, t_detected, t_pre, t_ret>>
extractVars == <<e_pc, start_page, total_pages, page_no, pending_buffer,
                 offset_locked, block_counter, emitted, processed, raised_page>>
mainVars    == <<m_pc, m_total_pages, m_page_no, is_discovering_toc,
                 scholar_mode_active, target_anchor, full_toc_buffer, m_steps,
                 final_output, m_errors, pdf_open, json_written>>
scoutVars   == <<s_pc, s_total_pages, s_page_no, state, s_accepted,
                 s_probe_failures, s_result>>
ctxVars     == <<ctx, c_called, c_role, c_text, c_pre>>
matcherVars == <<mt_index, mt_called, mt_page, mt_text, mt_fuzzy, mt_ret>>
tocVars     == <<tc_pc, tc_page, tc_lines, tc_line, last_chapter_id,
                 active_unit_id, structured_data, tc_pre>>
bindVars    == <<bf_called, bf_blocks, bf_ret>>
classifyVars == <<cl_called, cl_text, cl_ret>>
finalizeVars == <<fo_pc, fo_total_blocks, fo_temp, fo_temp0, fo_final,
                  fo_final_data, fo_debug, fo_debug_saved>>
tocMetaVars == <<gm_called, gm_in, gm_ret>>
syncVars    == <<sy_called, sy_in, sy_ret>>
strategyVars == <<ps_called, ps_in, ps_ret>>
sortingVars == <<us_called, us_in, us_ret>>
blockVars   == <<bl_called, bl_in, bl_ret>>
helperVars  == <<tocMetaVars, syncVars, strategyVars, sortingVars, blockVars>>
unitVars    == <<matcherVars, tocVars, bindVars, classifyVars, finalizeVars,
                 helperVars>>
vars        == <<trackerVars, extractVars, mainVars, scoutVars, ctxVars,
                 unitVars>>

-----------------------------------------------------------------------------
(* Python's None and a present value: a tuple of length 0 or 1.            *)
None == <<>>
Some(x) == <<x>>
Val(o) == o[1]

-----------------------------------------------------------------------------
(* Bounds of the model.                                                    *)
MaxTrackerPage == 3      \* physical pages handed to resolve: 1..MaxTrackerPage
MaxPages == 4            \* run_deep_extraction: documents of up to MaxPages pages
MaxBlocks == 2           \* blocks kept per page: 0..MaxBlocks
MaxMainPages == 16       \* main: documents of up to MaxMainPages pages
MaxPageErrors == 2       \* main: pages of a document whose processing raises
MaxScoutPages == 21      \* run_scout_sync: documents of up to MaxScoutPages pages
MaxProbeFailures == 2    \* run_scout_sync: trigger pages whose TOC probe gives nothing
MaxTextLen == 3          \* ContextTracker: block texts of up to MaxTextLen characters

(* Program constant: the largest printed page number resolve accepts.      *)
MaxPrintedPage == 2000
(* Program constant: the page from which main gives up scouting.           *)
MainScoutLimit == 15
(* Program constant: ProjectConfig.SCOUT_LIMIT.                            *)
SCOUT_LIMIT == 15
(* Program constant: pages past scout_limit the loop of run_scout_sync may *)
(* visit.                                                                  *)
ScoutOverrun == 5

-----------------------------------------------------------------------------
(* PageNumberTracker                                                       *)

(* Candidate values of detected_printed: None, noise below and above the   *)
(* accepted range, the two edges of the range, and plausible page numbers. *)
DetectedInts == {-5, 0, 1, 2, 3, 4, 13, MaxPrintedPage, MaxPrintedPage + 1, 5000}
DetectedValues == {None} \cup {Some(d) : d \in DetectedInts}

(* Mutation of NormalizeDetected: the upper edge is rejected, 0 is kept.   *)
NormalizeDetectedOffByOne(detected_printed) ==
    IF detected_printed # None
       /\ (Val(detected_printed) < 0 \/ Val(detected_printed) >= MaxPrintedPage)
    THEN None
    ELSE detected_printed

(* resolve, lines 7-11: an absurd number is replaced by None.              *)
NormalizeDetected(detected_printed) ==
    IF detected_printed # None
       /\ (Val(detected_printed) <= 0 \/ Val(detected_printed) > MaxPrintedPage)
    THEN None
    ELSE detected_printed

(* Mutation of Resolve: a disagreeing detection re-locks the offset.       *)
ResolveRelock(off, pdf_page, detected_printed) ==
    LET d == NormalizeDetected(detected_printed) IN
    IF d # None /\ off = None
    THEN [offset |-> Some(Val(d) - pdf_page), ret |-> d]
    ELSE IF off # None
         THEN LET expected == pdf_page + Val(off) IN
              IF d # None /\ Val(d) # expected
              THEN [offset |-> Some(Val(d) - pdf_page), ret |-> d]
              ELSE [offset |-> off, ret |-> Some(expected)]
         ELSE [offset |-> None, ret |-> None]

(* Mutation of Resolve: the first detection is stored as the offset.       *)
ResolveNoSubtract(off, pdf_page, detected_printed) ==
    LET d == NormalizeDetected(detected_printed) IN
    IF d # None /\ off = None
    THEN [offset |-> d, ret |-> d]
    ELSE IF off # None
         THEN LET expected == pdf_page + Val(off) IN
              [offset |-> off,
               ret |-> IF d # None /\ Val(d) = expected THEN d ELSE Some(expected)]
         ELSE [offset |-> None, ret |-> None]

(* resolve(pdf_page, detected_printed) on a tracker whose offset is off:   *)
(* the offset it leaves and the value it returns.                          *)
Resolve(off, pdf_page, detected_printed) ==
    LET d == NormalizeDetected(detected_printed) IN
    IF d # None /\ off = None
    THEN [offset |-> Some(Val(d) - pdf_page), ret |-> d]
    ELSE IF off # None
         THEN LET expected == pdf_page + Val(off) IN
              [offset |-> off,
               ret |-> IF d # None /\ Val(d) = expected THEN d ELSE Some(expected)]
         ELSE [offset |-> None, ret |-> None]

-----------------------------------------------------------------------------
(* Values of the variables of a component no action has touched.           *)
TrackerIdle ==
    /\ offset = None /\ t_called = FALSE /\ t_page = 0
    /\ t_detected = None /\ t_pre = None /\ t_ret = None

ExtractIdle ==
    /\ e_pc = "idle" /\ start_page = 1 /\ total_pages = 0 /\ page_no = 1
    /\ pending_buffer = <<>> /\ offset_locked = FALSE /\ block_counter = 1
    /\ emitted = <<>> /\ processed = <<>> /\ raised_page = 0

MainIdle ==
    /\ m_pc = "idle" /\ m_total_pages = 0 /\ m_page_no = 1
    /\ is_discovering_toc = FALSE /\ scholar_mode_active = FALSE
    /\ target_anchor = None /\ full_toc_buffer = <<>> /\ m_steps = {}
    /\ final_output = <<>> /\ m_errors = 0
    /\ pdf_open = FALSE /\ json_written = None

ScoutIdle ==
    /\ s_pc = "idle" /\ s_total_pages = 0 /\ s_page_no = 1
    /\ state = [is_discovering_toc |-> FALSE, toc_buffer |-> <<>>,
                target_anchor |-> None, sync_completed |-> FALSE]
    /\ s_accepted = {} /\ s_probe_failures = 0 /\ s_result = None

(* The string "Unknown", as a sequence of characters.                      *)
Unknown == <<"U", "n", "k", "n", "o", "w", "n">>

(* ContextTracker.__init__ *)
CtxIdle ==
    /\ ctx = [chapter |-> Some(Unknown), section |-> None, activity |-> None,
              example |-> None, current_chapter_verify |-> Some(Unknown)]
    /\ c_called = FALSE /\ c_role = "" /\ c_text = <<>> /\ c_pre = ctx

(* StructuralMatcher() with no index, never called. *)
MatcherIdle ==
    /\ mt_index = <<>> /\ mt_called = FALSE /\ mt_page = None
    /\ mt_text = None /\ mt_fuzzy = FALSE /\ mt_ret = None

(* The components that are single functions or single calls.               *)
(* transform_logic not called. *)
TocIdle ==
    /\ tc_pc = "idle" /\ tc_page = 0 /\ tc_lines = 0 /\ tc_line = None
    /\ last_chapter_id = 0 /\ active_unit_id = None
    /\ structured_data = <<>> /\ tc_pre = <<>>

(* bind_figures not called. *)
BindIdle ==
    /\ bf_called = FALSE /\ bf_blocks = <<>> /\ bf_ret = <<>>

(* classify not called. *)
ClassifyIdle ==
    /\ cl_called = FALSE /\ cl_text = <<>>
    /\ cl_ret = [role |-> "", clean_text |-> <<>>, page_number |-> None]

(* finalize_output not called. *)
FinalizeIdle ==
    /\ fo_pc = "idle" /\ fo_total_blocks = 0 /\ fo_temp = None
    /\ fo_temp0 = None /\ fo_final = "absent" /\ fo_final_data = 0
    /\ fo_debug = FALSE /\ fo_debug_saved = FALSE

(* get_toc_metadata not called. *)
TocMetaIdle == gm_called = FALSE /\ gm_in = <<>> /\ gm_ret = None

(* run_sync_phase not called. *)
SyncIdle == sy_called = FALSE /\ sy_in = <<>> /\ sy_ret = None

(* find_printed_page_no not called. *)
StrategyIdle == ps_called = FALSE /\ ps_in = <<>> /\ ps_ret = None

(* get_unified_sorting not called. *)
SortingIdle == us_called = FALSE /\ us_in = <<>> /\ us_ret = None

(* No block loop has run. *)
BlockIdle == bl_called = FALSE /\ bl_in = <<>> /\ bl_ret = None

HelperIdle ==
    /\ TocMetaIdle /\ SyncIdle /\ StrategyIdle /\ SortingIdle /\ BlockIdle

UnitIdle ==
    /\ MatcherIdle /\ TocIdle /\ BindIdle /\ ClassifyIdle /\ FinalizeIdle
    /\ HelperIdle

-----------------------------------------------------------------------------
(* Specification of the tracker alone: any sequence of resolve calls.      *)

(* PageNumberTracker.__init__ *)
InitTracker ==
    /\ TrackerIdle /\ ExtractIdle /\ MainIdle /\ ScoutIdle /\ CtxIdle /\ UnitIdle

(* One call resolve(p, d). *)
TrackerResolve ==
    \E p \in 1..MaxTrackerPage, d \in DetectedValues :
        LET r == Resolve(offset, p, d) IN
        /\ offset' = r.offset
        /\ t_called' = TRUE
        /\ t_page' = p
        /\ t_detected' = d
        /\ t_pre' = offset
        /\ t_ret' = r.ret
        /\ UNCHANGED <<extractVars, mainVars, scoutVars, ctxVars, unitVars>>

NextTracker == TrackerResolve

SpecTracker == InitTracker /\ [][NextTracker]_vars

-----------------------------------------------------------------------------
(* run_single_page and run_deep_extraction                                 *)

(* Raw detections find_printed_page_no may hand to the tracker.            *)
ExtractDetections == {None, Some(2), Some(13), Some(MaxPrintedPage + 1)}

(* run_single_page: the tracker offset it leaves, the page's blocks (one   *)
(* per box kept, each carrying pdf_page and the resolved printed_page) and *)
(* the flag tracker.offset is not None.                                    *)
RunSinglePage(off, page, raw_detected_no, nblocks) ==
    LET r == Resolve(off, page, raw_detected_no) IN
    [offset |-> r.offset,
     blocks |-> [i \in 1..nblocks |-> [pdf_page |-> page, printed_page |-> r.ret]],
     is_ready |-> r.offset # None]

(* transform_structure: the fields of the output record modelled here.     *)
TransformStructure(b, block_index) ==
    [page_number |-> b.printed_page, pdf_page |-> b.pdf_page,
     block_index |-> block_index]

(* Lines 153-160: the flush at the lock. Every buffered block gets         *)
(* printed_page = old_pdf_no + offset and the next block index.            *)
RECURSIVE FlushCorrected(_, _, _)
FlushCorrected(buf, off, counter) ==
    IF buf = <<>>
    THEN [batches |-> <<>>, counter |-> counter]
    ELSE LET old == Head(buf)
             corrected_no == old.page + off
             batch == [page |-> old.page,
                       recs |-> [i \in 1..Len(old.blocks) |->
                                   TransformStructure(
                                     [old.blocks[i] EXCEPT !.printed_page = Some(corrected_no)],
                                     counter + i - 1)]]
             rest == FlushCorrected(Tail(buf), off, counter + Len(old.blocks))
         IN [batches |-> <<batch>> \o rest.batches, counter |-> rest.counter]

(* Lines 176-179 and 186-189: the flush of the except handler and of the   *)
(* finally clause. Blocks are transformed as they are; every block of a    *)
(* batch gets block_index = block_counter.                                 *)
RECURSIVE FlushRaw(_, _)
FlushRaw(buf, counter) ==
    IF buf = <<>>
    THEN [batches |-> <<>>, counter |-> counter]
    ELSE LET old == Head(buf)
             batch == [page |-> old.page,
                       recs |-> [i \in 1..Len(old.blocks) |->
                                   TransformStructure(old.blocks[i], counter)]]
             rest == FlushRaw(Tail(buf), counter + Len(old.blocks))
         IN [batches |-> <<batch>> \o rest.batches, counter |-> rest.counter]

(* State at the first iteration of the page loop (line 140).               *)
InitExtract ==
    /\ TrackerIdle /\ MainIdle /\ ScoutIdle /\ CtxIdle /\ UnitIdle
    /\ total_pages \in 1..MaxPages
    /\ start_page \in 1..total_pages
    /\ page_no = start_page
    /\ e_pc = "loop"
    /\ pending_buffer = <<>> /\ offset_locked = FALSE /\ block_counter = 1
    /\ emitted = <<>> /\ processed = <<>> /\ raised_page = 0

(* Lines 140-171: one iteration of the page loop that raises nothing.      *)
ProcessPage ==
    /\ e_pc = "loop" /\ page_no <= total_pages
    /\ \E d \in ExtractDetections, nb \in 0..MaxBlocks :
        LET sp == RunSinglePage(offset, page_no, d, nb) IN
        /\ offset' = sp.offset
        /\ IF sp.is_ready
           THEN LET fl == IF ~offset_locked
                          THEN FlushCorrected(pending_buffer, Val(sp.offset), block_counter)
                          ELSE [batches |-> <<>>, counter |-> block_counter]
                    transformed_page ==
                        [page |-> page_no,
                         recs |-> [i \in 1..nb |->
                                     TransformStructure(sp.blocks[i], fl.counter + i - 1)]]
                IN /\ offset_locked' = TRUE
                   /\ pending_buffer' = IF ~offset_locked THEN <<>> ELSE pending_buffer
                   /\ emitted' = emitted \o fl.batches \o <<transformed_page>>
                   /\ block_counter' = fl.counter + nb
           ELSE /\ pending_buffer' = Append(pending_buffer,
                                            [page |-> page_no, blocks |-> sp.blocks])
                /\ UNCHANGED <<offset_locked, emitted, block_counter>>
    /\ processed' = Append(processed, page_no)
    /\ page_no' = page_no + 1
    /\ UNCHANGED <<e_pc, start_page, total_pages, raised_page>>
    /\ UNCHANGED <<t_called, t_page, t_detected, t_pre, t_ret>>
    /\ UNCHANGED <<mainVars, scoutVars, ctxVars, unitVars>>

(* load_page, layout detection or find_printed_page_no raises (lines 142,  *)
(* 58-66): the tracker has not been called for this page.                  *)
RaiseBeforeResolve ==
    /\ e_pc = "loop" /\ page_no <= total_pages
    /\ e_pc' = "except"
    /\ raised_page' = page_no
    /\ UNCHANGED <<offset, start_page, total_pages, page_no, pending_buffer,
                   offset_locked, block_counter, emitted, processed>>
    /\ UNCHANGED <<t_called, t_page, t_detected, t_pre, t_ret>>
    /\ UNCHANGED <<mainVars, scoutVars, ctxVars, unitVars>>

(* extract_text_block or classify raises (lines 72-73): tracker.resolve    *)
(* has already run for this page (line 67).                                *)
RaiseAfterResolve ==
    /\ e_pc = "loop" /\ page_no <= total_pages
    /\ \E d \in ExtractDetections :
        offset' = Resolve(offset, page_no, d).offset
    /\ e_pc' = "except"
    /\ raised_page' = page_no
    /\ UNCHANGED <<start_page, total_pages, page_no, pending_buffer,
                   offset_locked, block_counter, emitted, processed>>
    /\ UNCHANGED <<t_called, t_page, t_detected, t_pre, t_ret>>
    /\ UNCHANGED <<mainVars, scoutVars, ctxVars, unitVars>>

(* Lines 173-180: the except handler yields the pending buffer as it is    *)
(* and re-raises.                                                          *)
ExceptFlush ==
    /\ e_pc = "except"
    /\ LET fl == FlushRaw(pending_buffer, block_counter) IN
        /\ emitted' = emitted \o fl.batches
        /\ block_counter' = fl.counter
    /\ e_pc' = "finally"
    /\ UNCHANGED <<offset, start_page, total_pages, page_no, pending_buffer,
                   offset_locked, processed, raised_page>>
    /\ UNCHANGED <<t_called, t_page, t_detected, t_pre, t_ret>>
    /\ UNCHANGED <<mainVars, scoutVars, ctxVars, unitVars>>

(* range(start_page, total_pages + 1) is exhausted: on to the finally.     *)
LoopExit ==
    /\ e_pc = "loop" /\ page_no > total_pages
    /\ e_pc' = "finally"
    /\ UNCHANGED <<offset, start_page, total_pages, page_no, pending_buffer,
                   offset_locked, block_counter, emitted, processed, raised_page>>
    /\ UNCHANGED <<t_called, t_page, t_detected, t_pre, t_ret>>
    /\ UNCHANGED <<mainVars, scoutVars, ctxVars, unitVars>>

(* Lines 182-191: the finally clause; the generator then ends (done) or    *)
(* the re-raised exception leaves it (raised).                             *)
FinallyFlush ==
    /\ e_pc = "finally"
    /\ IF pending_buffer # <<>> /\ ~offset_locked
       THEN LET fl == FlushRaw(pending_buffer, block_counter) IN
            /\ emitted' = emitted \o fl.batches
            /\ block_counter' = fl.counter
       ELSE UNCHANGED <<emitted, block_counter>>
    /\ e_pc' = IF raised_page # 0 THEN "raised" ELSE "done"
    /\ UNCHANGED <<offset, start_page, total_pages, page_no, pending_buffer,
                   offset_locked, processed, raised_page>>
    /\ UNCHANGED <<t_called, t_page, t_detected, t_pre, t_ret>>
    /\ UNCHANGED <<mainVars, scoutVars, ctxVars, unitVars>>

NextExtract ==
    \/ ProcessPage
    \/ RaiseBeforeResolve
    \/ RaiseAfterResolve
    \/ ExceptFlush
    \/ LoopExit
    \/ FinallyFlush

SpecExtract == InitExtract /\ [][NextExtract]_vars

-----------------------------------------------------------------------------
(* The page loop of main (main.py, lines 77-269). Every iteration runs     *)
(* inside the per-page guard of lines 81 and 267-269: an exception ends    *)
(* the iteration and the loop goes on with the next page.                  *)

(* State at the first iteration of the page loop (lines 67-77).            *)
InitMain ==
    /\ TrackerIdle /\ ExtractIdle /\ ScoutIdle /\ CtxIdle /\ UnitIdle
    /\ m_total_pages \in 1..MaxMainPages
    /\ m_pc = "loop" /\ m_page_no = 1
    /\ is_discovering_toc = FALSE /\ scholar_mode_active = FALSE
    /\ target_anchor = None /\ full_toc_buffer = <<>> /\ m_steps = {}
    /\ final_output = <<>> /\ m_errors = 0
    /\ pdf_open = TRUE /\ json_written = None

MainInLoop == m_pc = "loop" /\ m_page_no <= m_total_pages

MainOthersUnchanged == UNCHANGED <<trackerVars, extractVars, scoutVars, ctxVars, unitVars>>

(* No action of the loop body touches the document handle or the output    *)
(* file.                                                                   *)
MainIoUnchanged == UNCHANGED <<pdf_open, json_written>>

(* Lines 83-88: loading the page or detecting its layout raises.           *)
MainPageError ==
    /\ MainInLoop /\ m_errors < MaxPageErrors
    /\ m_steps' = {}
    /\ m_errors' = m_errors + 1
    /\ m_page_no' = m_page_no + 1
    /\ UNCHANGED <<m_pc, m_total_pages, is_discovering_toc, scholar_mode_active,
                   target_anchor, full_toc_buffer, final_output>>
    /\ MainIoUnchanged /\ MainOthersUnchanged

(* Lines 91-120, no trigger: the page has no box or its header lacks       *)
(* "contents". From page 15 on main returns.                               *)
MainScoutNoTrigger ==
    /\ MainInLoop /\ ~is_discovering_toc /\ ~scholar_mode_active
    /\ m_steps' = {"scout"}
    /\ IF m_page_no >= MainScoutLimit
       THEN m_pc' = "aborted" /\ UNCHANGED m_page_no
       ELSE m_pc' = m_pc /\ m_page_no' = m_page_no + 1
    /\ UNCHANGED <<m_total_pages, is_discovering_toc, scholar_mode_active,
                   target_anchor, full_toc_buffer, final_output, m_errors>>
    /\ MainIoUnchanged /\ MainOthersUnchanged

(* Lines 94-98: the OCR of the header raises.                              *)
MainScoutError ==
    /\ MainInLoop /\ ~is_discovering_toc /\ ~scholar_mode_active
    /\ m_errors < MaxPageErrors
    /\ m_steps' = {"scout"}
    /\ m_errors' = m_errors + 1
    /\ m_page_no' = m_page_no + 1
    /\ UNCHANGED <<m_pc, m_total_pages, is_discovering_toc, scholar_mode_active,
                   target_anchor, full_toc_buffer, final_output>>
    /\ MainIoUnchanged /\ MainOthersUnchanged

(* Lines 103-114: the header holds "contents". The probe gives an anchor,  *)
(* gives nothing, or raises (after is_discovering_toc was set, line 106).  *)
MainScoutTrigger ==
    /\ MainInLoop /\ ~is_discovering_toc /\ ~scholar_mode_active
    /\ m_steps' = {"scout"}
    /\ is_discovering_toc' = TRUE
    /\ \E probe \in {"anchor", "empty", "raises"} :
        /\ probe = "raises" => m_errors < MaxPageErrors
        /\ target_anchor' = IF probe = "anchor" THEN Some("anchor") ELSE target_anchor
        /\ full_toc_buffer' = IF probe = "raises" THEN full_toc_buffer
                              ELSE Append(full_toc_buffer, m_page_no)
        /\ m_errors' = IF probe = "raises" THEN m_errors + 1 ELSE m_errors
    /\ m_page_no' = m_page_no + 1
    /\ UNCHANGED <<m_pc, m_total_pages, scholar_mode_active, final_output>>
    /\ MainIoUnchanged /\ MainOthersUnchanged

(* Lines 123-154 and 174-176: no block of the page matches the anchor.     *)
MainSyncNotFound ==
    /\ MainInLoop /\ is_discovering_toc /\ ~scholar_mode_active
    /\ m_steps' = {"sync"}
    /\ full_toc_buffer' = Append(full_toc_buffer, m_page_no)
    /\ m_page_no' = m_page_no + 1
    /\ UNCHANGED <<m_pc, m_total_pages, is_discovering_toc, scholar_mode_active,
                   target_anchor, final_output, m_errors>>
    /\ MainIoUnchanged /\ MainOthersUnchanged

(* Lines 129-169: the sync step raises: detected_text read before it was   *)
(* bound (line 136), target_anchor.lower() on a null anchor (line 146), or *)
(* the TOC run of lines 162-164 after a match. The flags are untouched.    *)
MainSyncError ==
    /\ MainInLoop /\ is_discovering_toc /\ ~scholar_mode_active
    /\ m_errors < MaxPageErrors
    /\ m_steps' = {"sync"}
    /\ m_errors' = m_errors + 1
    /\ m_page_no' = m_page_no + 1
    /\ UNCHANGED <<m_pc, m_total_pages, is_discovering_toc, scholar_mode_active,
                   target_anchor, full_toc_buffer, final_output>>
    /\ MainIoUnchanged /\ MainOthersUnchanged

(* Mutation of MainSyncFound: is_discovering_toc is not cleared when       *)
(* scholar mode is entered.                                                *)
MainSyncFoundKeepsDiscovering ==
    /\ MainInLoop /\ is_discovering_toc /\ ~scholar_mode_active
    /\ target_anchor # None
    /\ m_steps' = {"sync", "scholar"}
    /\ is_discovering_toc' = TRUE
    /\ scholar_mode_active' = TRUE
    /\ \E ok \in BOOLEAN :
        /\ ~ok => m_errors < MaxPageErrors
        /\ final_output' = IF ok THEN Append(final_output, m_page_no) ELSE final_output
        /\ m_errors' = IF ok THEN m_errors ELSE m_errors + 1
    /\ m_page_no' = m_page_no + 1
    /\ UNCHANGED <<m_pc, m_total_pages, target_anchor, full_toc_buffer>>
    /\ MainIoUnchanged /\ MainOthersUnchanged

(* Lines 139-153, 155-173 and 179-265: a block matches the anchor (which   *)
(* needs a non-null anchor), scholar mode is entered and the same page is  *)
(* processed by the scholar phase, which completes or raises.              *)
MainSyncFound ==
    /\ MainInLoop /\ is_discovering_toc /\ ~scholar_mode_active
    /\ target_anchor # None
    /\ m_steps' = {"sync", "scholar"}
    /\ is_discovering_toc' = FALSE
    /\ scholar_mode_active' = TRUE
    /\ \E ok \in BOOLEAN :
        /\ ~ok => m_errors < MaxPageErrors
        /\ final_output' = IF ok THEN Append(final_output, m_page_no) ELSE final_output
        /\ m_errors' = IF ok THEN m_errors ELSE m_errors + 1
    /\ m_page_no' = m_page_no + 1
    /\ UNCHANGED <<m_pc, m_total_pages, target_anchor, full_toc_buffer>>
    /\ MainIoUnchanged /\ MainOthersUnchanged

(* Lines 179-265: a page of the scholar phase, completed or raising before *)
(* final_output.extend (line 254).                                         *)
MainScholarPage ==
    /\ MainInLoop /\ scholar_mode_active
    /\ m_steps' = {"scholar"}
    /\ \E ok \in BOOLEAN :
        /\ ~ok => m_errors < MaxPageErrors
        /\ final_output' = IF ok THEN Append(final_output, m_page_no) ELSE final_output
        /\ m_errors' = IF ok THEN m_errors ELSE m_errors + 1
    /\ m_page_no' = m_page_no + 1
    /\ UNCHANGED <<m_pc, m_total_pages, is_discovering_toc, scholar_mode_active,
                   target_anchor, full_toc_buffer>>
    /\ MainIoUnchanged /\ MainOthersUnchanged

(* Lines 271-283: the loop is exhausted and the output is written.         *)
MainLoopEnd ==
    /\ m_pc = "loop" /\ m_page_no > m_total_pages
    /\ m_pc' = "finalized"
    /\ m_steps' = {}
    /\ json_written' = Some(final_output)
    /\ UNCHANGED pdf_open
    /\ UNCHANGED <<m_total_pages, m_page_no, is_discovering_toc, scholar_mode_active,
                   target_anchor, full_toc_buffer, final_output, m_errors>>
    /\ MainOthersUnchanged

(* Lines 272-278 raise (transform_structure or save_json): the outer guard *)
(* of lines 285-287 logs FATAL and main returns; no final JSON is          *)
(* completed.                                                              *)
MainFinalizeFails ==
    /\ m_pc = "loop" /\ m_page_no > m_total_pages
    /\ m_pc' = "crashed"
    /\ m_steps' = {}
    /\ UNCHANGED <<m_total_pages, m_page_no, is_discovering_toc, scholar_mode_active,
                   target_anchor, full_toc_buffer, final_output, m_errors>>
    /\ MainIoUnchanged /\ MainOthersUnchanged

(* A KeyboardInterrupt while the loop runs: it is no Exception, so neither *)
(* the per-page guard (267) nor the outer guard (285) catches it and it    *)
(* leaves main.                                                            *)
MainInterrupted ==
    /\ MainInLoop
    /\ m_pc' = "interrupted"
    /\ m_steps' = {}
    /\ UNCHANGED <<m_total_pages, m_page_no, is_discovering_toc, scholar_mode_active,
                   target_anchor, full_toc_buffer, final_output, m_errors>>
    /\ MainIoUnchanged /\ MainOthersUnchanged

NextMain ==
    \/ MainPageError
    \/ MainScoutNoTrigger
    \/ MainScoutError
    \/ MainScoutTrigger
    \/ MainSyncNotFound
    \/ MainSyncError
    \/ MainSyncFound
    \/ MainScholarPage
    \/ MainLoopEnd
    \/ MainFinalizeFails
    \/ MainInterrupted

SpecMain == InitMain /\ [][NextMain]_vars

-----------------------------------------------------------------------------
(* run_scout_sync (modules/scout_sync.py, lines 74-166), with              *)
(* run_scout_phase and run_sync_phase of processing/pipeline_utils.py.     *)

(* State at the first iteration of the loop (lines 74-85).                 *)
InitScout ==
    /\ TrackerIdle /\ ExtractIdle /\ MainIdle /\ CtxIdle /\ UnitIdle
    /\ s_total_pages \in 1..MaxScoutPages
    /\ s_pc = "loop" /\ s_page_no = 1
    /\ state = [is_discovering_toc |-> FALSE, toc_buffer |-> <<>>,
                target_anchor |-> None, sync_completed |-> FALSE]
    /\ s_accepted = {} /\ s_probe_failures = 0 /\ s_result = None

(* min(total_pages, scout_limit + 5), the last page of the loop (line 85). *)
ScoutLastPage ==
    IF s_total_pages < SCOUT_LIMIT + ScoutOverrun
    THEN s_total_pages ELSE SCOUT_LIMIT + ScoutOverrun

ScoutInLoop == s_pc = "loop" /\ s_page_no <= ScoutLastPage

ScoutOthersUnchanged == UNCHANGED <<trackerVars, extractVars, mainVars, ctxVars, unitVars>>

(* Lines 162-164: anything raised inside the try (page loading, layout,    *)
(* OCR, the TOC probe) makes run_scout_sync return None.                   *)
ScoutRaises ==
    /\ ScoutInLoop
    /\ s_pc' = "returned"
    /\ s_result' = None
    /\ UNCHANGED <<s_total_pages, s_page_no, state, s_accepted, s_probe_failures>>
    /\ ScoutOthersUnchanged

(* Lines 96-99 and 120-122: run_scout_phase finds no keyword in the first  *)
(* box; from page scout_limit on the loop is left.                         *)
ScoutNoTrigger ==
    /\ ScoutInLoop /\ ~state.is_discovering_toc
    /\ IF s_page_no >= SCOUT_LIMIT
       THEN s_pc' = "summary" /\ UNCHANGED s_page_no
       ELSE s_pc' = s_pc /\ s_page_no' = s_page_no + 1
    /\ UNCHANGED <<s_total_pages, state, s_accepted, s_probe_failures, s_result>>
    /\ ScoutOthersUnchanged

(* ScoutTrigger without the reset of line 115.                             *)
ScoutTriggerNoReset ==
    /\ ScoutInLoop /\ ~state.is_discovering_toc
    /\ \E probe_ok \in BOOLEAN :
        /\ ~probe_ok => s_probe_failures < MaxProbeFailures
        /\ state' = [state EXCEPT
                       !.is_discovering_toc = TRUE,
                       !.target_anchor = IF probe_ok THEN Some("anchor") ELSE @,
                       !.toc_buffer = Append(@, s_page_no)]
        /\ s_accepted' = IF probe_ok THEN s_accepted \cup {s_page_no} ELSE s_accepted
        /\ s_probe_failures' = IF probe_ok THEN s_probe_failures ELSE s_probe_failures + 1
    /\ s_page_no' = s_page_no + 1
    /\ UNCHANGED <<s_pc, s_total_pages, s_result>>
    /\ ScoutOthersUnchanged

(* Lines 99-118: run_scout_phase finds a keyword; the TOC probe gives an   *)
(* anchor, or gives nothing and is_discovering_toc is reset (line 115).    *)
(* The page joins toc_buffer either way and the loop continues.            *)
ScoutTrigger ==
    /\ ScoutInLoop /\ ~state.is_discovering_toc
    /\ \E probe_ok \in BOOLEAN :
        /\ ~probe_ok => s_probe_failures < MaxProbeFailures
        /\ state' = [state EXCEPT
                       !.is_discovering_toc = probe_ok,
                       !.target_anchor = IF probe_ok THEN Some("anchor") ELSE @,
                       !.toc_buffer = Append(@, s_page_no)]
        /\ s_accepted' = IF probe_ok THEN s_accepted \cup {s_page_no} ELSE s_accepted
        /\ s_probe_failures' = IF probe_ok THEN s_probe_failures ELSE s_probe_failures + 1
    /\ s_page_no' = s_page_no + 1
    /\ UNCHANGED <<s_pc, s_total_pages, s_result>>
    /\ ScoutOthersUnchanged

(* run_sync_phase, lines 35-37 and 48-58 of pipeline_utils.py: a null      *)
(* anchor never matches; otherwise the page matches or not.                *)
RunSyncPhaseOutcomes(anchor) ==
    IF anchor = None THEN {FALSE} ELSE {TRUE, FALSE}

(* Lines 125-132: the anchor is found on this page; the loop is left.      *)
ScoutSyncMatch ==
    /\ ScoutInLoop /\ state.is_discovering_toc
    /\ TRUE \in RunSyncPhaseOutcomes(state.target_anchor)
    /\ state' = [state EXCEPT !.sync_completed = TRUE]
    /\ s_pc' = "summary"
    /\ UNCHANGED <<s_total_pages, s_page_no, s_accepted, s_probe_failures, s_result>>
    /\ ScoutOthersUnchanged

(* Lines 133-135: no match; the page joins toc_buffer.                     *)
ScoutSyncNoMatch ==
    /\ ScoutInLoop /\ state.is_discovering_toc
    /\ FALSE \in RunSyncPhaseOutcomes(state.target_anchor)
    /\ state' = [state EXCEPT !.toc_buffer = Append(@, s_page_no)]
    /\ s_page_no' = s_page_no + 1
    /\ UNCHANGED <<s_pc, s_total_pages, s_accepted, s_probe_failures, s_result>>
    /\ ScoutOthersUnchanged

(* The range of line 85 is exhausted; page_no keeps its last value.        *)
ScoutLoopEnd ==
    /\ s_pc = "loop" /\ s_page_no > ScoutLastPage
    /\ s_pc' = "summary"
    /\ s_page_no' = ScoutLastPage
    /\ UNCHANGED <<s_total_pages, state, s_accepted, s_probe_failures, s_result>>
    /\ ScoutOthersUnchanged

(* Lines 139-160: the report when the sync completed (None when writing it *)
(* raises, lines 162-164), None otherwise.                                 *)
ScoutSummary ==
    /\ s_pc = "summary"
    /\ s_pc' = "returned"
    /\ IF state.sync_completed
       THEN \E written \in BOOLEAN :
              s_result' = IF written
                          THEN Some([toc_pages |-> state.toc_buffer,
                                     content_start_page |-> s_page_no,
                                     anchor_used |-> state.target_anchor])
                          ELSE None
       ELSE s_result' = None
    /\ UNCHANGED <<s_total_pages, s_page_no, state, s_accepted, s_probe_failures>>
    /\ ScoutOthersUnchanged

NextScout ==
    \/ ScoutRaises
    \/ ScoutNoTrigger
    \/ ScoutTrigger
    \/ ScoutSyncMatch
    \/ ScoutSyncNoMatch
    \/ ScoutLoopEnd
    \/ ScoutSummary

SpecScout == InitScout /\ [][NextScout]_vars

-----------------------------------------------------------------------------
(* ContextTracker (semantics/semantics.py, lines 92-131). A text is a      *)
(* sequence of characters.                                                 *)

Alphabet == {"A", " "}
IsSpace(ch) == ch = " "

AllTexts == UNION {[1..n -> Alphabet] : n \in 0..MaxTextLen}

(* str.strip(): leading and trailing whitespace removed.                   *)
RECURSIVE LStrip(_)
LStrip(t) == IF t # <<>> /\ IsSpace(Head(t)) THEN LStrip(Tail(t)) ELSE t
RECURSIVE RStrip(_)
RStrip(t) ==
    IF t # <<>> /\ IsSpace(t[Len(t)]) THEN RStrip(SubSeq(t, 1, Len(t) - 1)) ELSE t
Strip(t) == RStrip(LStrip(t))

(* The texts main hands to update (main.py, lines 221-231): the clean_text *)
(* of SemanticClassifier.classify, whose whitespace runs are collapsed to  *)
(* one space and which is stripped (semantics.py, lines 23-25).            *)
CleanTexts ==
    {t \in AllTexts :
        /\ Strip(t) = t
        /\ \A i \in 1..(Len(t) - 1) : ~(IsSpace(t[i]) /\ IsSpace(t[i + 1]))}

(* The roles classify gives to a block that main keeps.                    *)
Roles == {"CHAPTER", "SECTION", "ACTIVITY", "EXAMPLE", "BODY"}

(* Mutation of Update: a CHAPTER update resets the sub-hierarchy even when *)
(* the chapter text is the current one.                                    *)
UpdateAlwaysResets(st, role, text) ==
    IF text = <<>> \/ Len(Strip(text)) < 2
    THEN st
    ELSE IF role = "CHAPTER"
    THEN [st EXCEPT !.chapter = Some(text),
                    !.current_chapter_verify = Some(text),
                    !.section = None, !.activity = None, !.example = None]
    ELSE IF role = "SECTION"
    THEN IF st.section # Some(text)
         THEN [st EXCEPT !.section = Some(text),
                         !.activity = None, !.example = None]
         ELSE st
    ELSE IF role = "ACTIVITY"
    THEN [st EXCEPT !.activity = Some(text)]
    ELSE IF role = "EXAMPLE"
    THEN [st EXCEPT !.example = Some(text)]
    ELSE st

(* ContextTracker.update(role, text) on state st: the state it leaves.     *)
Update(st, role, text) ==
    IF text = <<>> \/ Len(Strip(text)) < 2
    THEN st
    ELSE IF role = "CHAPTER"
    THEN IF st.chapter # Some(text)
         THEN [st EXCEPT !.chapter = Some(text),
                         !.current_chapter_verify = Some(text),
                         !.section = None, !.activity = None, !.example = None]
         ELSE st
    ELSE IF role = "SECTION"
    THEN IF st.section # Some(text)
         THEN [st EXCEPT !.section = Some(text),
                         !.activity = None, !.example = None]
         ELSE st
    ELSE IF role = "ACTIVITY"
    THEN [st EXCEPT !.activity = Some(text)]
    ELSE IF role = "EXAMPLE"
    THEN [st EXCEPT !.example = Some(text)]
    ELSE st

InitCtx ==
    /\ TrackerIdle /\ ExtractIdle /\ MainIdle /\ ScoutIdle /\ CtxIdle /\ UnitIdle

(* One call update(role, text). *)
CtxUpdate ==
    \E role \in Roles, text \in CleanTexts :
        /\ ctx' = Update(ctx, role, text)
        /\ c_called' = TRUE
        /\ c_role' = role
        /\ c_text' = text
        /\ c_pre' = ctx
        /\ UNCHANGED <<trackerVars, extractVars, mainVars, scoutVars, unitVars>>

NextCtx == CtxUpdate

SpecCtx == InitCtx /\ [][NextCtx]_vars

-----------------------------------------------------------------------------
(* StructuralMatcher                       (processing/structural_matcher.py) *)

(* The components of the pipeline proper, idle in the specifications of    *)
(* the single functions below.                                             *)
pipelineVars == <<trackerVars, extractVars, mainVars, scoutVars, ctxVars>>

PipelineIdle ==
    /\ TrackerIdle /\ ExtractIdle /\ MainIdle /\ ScoutIdle /\ CtxIdle

(* Longest TOC index handed to the matcher.                                *)
MaxIndexLen == 2

(* TOC entries: start_page and end_page are None or Some(int),             *)
(* chapter_name is None or Some(string).                                   *)
TocNodes ==
    [start_page   : {None, Some(1), Some(10)},
     end_page     : {None, Some(9), Some(20)},
     chapter_name : {None, Some("Circles"), Some("Chapter 1 Lines")}]

Indexes == UNION {[1..n -> TocNodes] : n \in 0..MaxIndexLen}

MatcherPageArgs == {None, Some(5), Some(15), Some(25)}

MatcherTextArgs == {None, Some(""), Some("circles"), Some("Line"), Some("zzz")}

(* re.sub(r'CHAPTER\s+\d+\s+', '', str(s).upper()).strip() on the strings  *)
(* of the model.                                                           *)
CleanQuery(s) ==
    CASE s = "Circles"         -> "CIRCLES"
      [] s = "circles"         -> "CIRCLES"
      [] s = "Chapter 1 Lines" -> "LINES"
      [] s = "Line"            -> "LINE"
      [] s = "zzz"             -> "ZZZ"
      [] OTHER                 -> ""

(* 100 * difflib.SequenceMatcher(None, q, k).ratio(), rounded down, for    *)
(* the cleaned queries and the keys of the model.                          *)
Ratio(q, k) ==
    CASE q = k                        -> 100
      [] q = "CIRCLES" /\ k = "LINES" -> 50
      [] q = "LINE" /\ k = "LINES"    -> 88
      [] q = "LINE" /\ k = "CIRCLES"  -> 36
      [] OTHER                        -> 0

(* cutoff=0.6 of the get_close_matches call *)
FuzzyCutoff == 60

(* chapter_map built by __init__: key -> node, a later node with the same  *)
(* key replacing an earlier one; entries with a falsy name are left out.   *)
ChapterMapKeys(index) ==
    {CleanQuery(Val(index[i].chapter_name)) :
        i \in {j \in 1..Len(index) : index[j].chapter_name # None}}

ChapterMap(index, key) ==
    LET is == {i \in 1..Len(index) :
                  /\ index[i].chapter_name # None
                  /\ CleanQuery(Val(index[i].chapter_name)) = key}
    IN  index[CHOOSE i \in is : \A j \in is : j <= i]

(* get_close_matches(q, keys, n=1, cutoff=0.6): the best key at or above   *)
(* the cutoff, as a set with at most one element.                          *)
GetCloseMatches(q, keys) ==
    LET ok == {k \in keys : Ratio(q, k) >= FuzzyCutoff}
    IN  IF ok = {} THEN {}
        ELSE {CHOOSE k \in ok : \A k2 \in ok : Ratio(q, k2) <= Ratio(q, k)}

(* Mutant of RangeMatch: the loop has no break, the last hit wins.         *)
RECURSIVE RangeMatchNoBreak(_, _, _)
RangeMatchNoBreak(index, page, i) ==
    IF i > Len(index) THEN None
    ELSE LET rest == RangeMatchNoBreak(index, page, i + 1)
             node == index[i]
         IN  IF rest # None THEN rest
             ELSE IF /\ node.start_page # None
                     /\ Val(node.start_page) <= page
                     /\ (node.end_page = None \/ page <= Val(node.end_page))
                  THEN Some(node)
                  ELSE None

(* The range loop of resolve_hierarchy from position i on: the first node  *)
(* with start <= page <= end, a null end being infinity.                   *)
RECURSIVE RangeMatch(_, _, _)
RangeMatch(index, page, i) ==
    IF i > Len(index) THEN None
    ELSE LET node == index[i]
         IN  IF /\ node.start_page # None
                /\ Val(node.start_page) <= page
                /\ (node.end_page = None \/ page <= Val(node.end_page))
             THEN Some(node)
             ELSE RangeMatch(index, page, i + 1)

(* resolve_hierarchy(printed_page_no, chapter_verify_text):                *)
(* [ret |-> the node or None, fuzzy |-> get_close_matches was called].     *)
ResolveHierarchy(index, printed_page_no, chapter_verify_text) ==
    LET ranged == IF printed_page_no # None
                  THEN RangeMatch(index, Val(printed_page_no), 1)
                  ELSE None
        truthy == chapter_verify_text # None /\ Val(chapter_verify_text) # ""
    IN  IF ranged = None /\ truthy
        THEN LET matches == GetCloseMatches(CleanQuery(Val(chapter_verify_text)),
                                            ChapterMapKeys(index))
             IN  [ret |-> IF matches # {}
                          THEN Some(ChapterMap(index, CHOOSE k \in matches : TRUE))
                          ELSE None,
                  fuzzy |-> TRUE]
        ELSE [ret |-> ranged, fuzzy |-> FALSE]

(* StructuralMatcher(toc_data=index) *)
InitMatcher ==
    /\ PipelineIdle /\ TocIdle /\ BindIdle /\ ClassifyIdle /\ FinalizeIdle
    /\ HelperIdle
    /\ mt_index \in Indexes
    /\ mt_called = FALSE /\ mt_page = None /\ mt_text = None
    /\ mt_fuzzy = FALSE /\ mt_ret = None

(* A call resolve_hierarchy(page, text); the call leaves the matcher as   *)
(* it was, so one call per index covers every call.                        *)
MatcherResolve ==
    \E page \in MatcherPageArgs, text \in MatcherTextArgs :
        LET r == ResolveHierarchy(mt_index, page, text) IN
        /\ ~mt_called
        /\ mt_called' = TRUE
        /\ mt_page' = page
        /\ mt_text' = text
        /\ mt_fuzzy' = r.fuzzy
        /\ mt_ret' = r.ret
        /\ UNCHANGED <<mt_index, pipelineVars, tocVars, bindVars, classifyVars,
                       finalizeVars, helperVars>>

NextMatcher == MatcherResolve

SpecMatcher == InitMatcher /\ [][NextMatcher]_vars

-----------------------------------------------------------------------------
(* TOCProcessorAPI.transform_logic                  (processing/toc_api.py, *)
(* the same loop is in modules/toc_extractor.py)                           *)

(* Most TOC lines and pages read in one call.                              *)
MaxTocLines == 3
MaxTocPages == 2

(* self.max_chapter_jump *)
max_chapter_jump == 5

(* A merged line that passed the filters and matched chapter_id_pattern,   *)
(* by what the patterns extract from it:                                   *)
(*   id      int(id_match.group(1))                                        *)
(*   start_p, end_p   groups of page_pattern, None when absent             *)
(*   unit    None, or Some(int(unit_check.group(2))) when the name has the *)
(*           <words> <digits> <text> form                                  *)
(*   named   the final name is non-empty (and has 2 characters or more)    *)
TocPageRefs ==
    {<<None, None>>, <<Some(0), None>>, <<Some(10), None>>,
     <<Some(10), Some(20)>>}

TocLines ==
    {[id |-> i, start_p |-> pr[1], end_p |-> pr[2], unit |-> u, named |-> n] :
        i \in {1, 2, 7}, pr \in TocPageRefs, u \in {None, Some(9)},
        n \in BOOLEAN}

(* Mutant of CandidateRejected: only a regressing id is rejected.          *)
CandidateRejectedNoJumpLimit(chapter_id_candidate, last) ==
    chapter_id_candidate < last

(* The test of the candidate id against last_chapter_id.                   *)
CandidateRejected(chapter_id_candidate, last) ==
    \/ chapter_id_candidate < last
    \/ chapter_id_candidate > last + max_chapter_jump

(* Mutant of Backfill: the next start page itself is used.                 *)
BackfillNoMinusOne(data) ==
    [i \in 1..Len(data) |->
        IF /\ i < Len(data)
           /\ data[i].end_page = None
           /\ data[i + 1].start_page # None
           /\ Val(data[i + 1].start_page) # 0
        THEN [data[i] EXCEPT !.end_page = data[i + 1].start_page]
        ELSE data[i]]

(* The back-fill loop from index i on (1-based): an entry without end_page *)
(* gets next start_page - 1 when the next start_page is truthy, that is    *)
(* neither None nor 0.                                                     *)
RECURSIVE BackfillFrom(_, _)
BackfillFrom(data, i) ==
    IF i > Len(data) - 1 THEN data
    ELSE LET next_start == data[i + 1].start_page
             filled ==
                 IF /\ data[i].end_page = None
                    /\ next_start # None /\ Val(next_start) # 0
                 THEN [data EXCEPT ![i].end_page = Some(Val(next_start) - 1)]
                 ELSE data
         IN  BackfillFrom(filled, i + 1)

Backfill(data) == BackfillFrom(data, 1)

(* transform_logic(raw_pages) entered: empty result, last_chapter_id 0.    *)
InitToc ==
    /\ PipelineIdle /\ MatcherIdle /\ BindIdle /\ ClassifyIdle /\ FinalizeIdle
    /\ HelperIdle
    /\ tc_pc = "scan" /\ tc_page = 0 /\ tc_lines = 0 /\ tc_line = None
    /\ last_chapter_id = 0 /\ active_unit_id = None
    /\ structured_data = <<>> /\ tc_pre = <<>>

TocOthersUnchanged ==
    UNCHANGED <<pipelineVars, matcherVars, bindVars, classifyVars, finalizeVars,
                helperVars>>

TocCanReadLine == tc_pc = "scan" /\ tc_page >= 1 /\ tc_lines < MaxTocLines

(* for page in raw_pages: the next page is entered. *)
TocNextPage ==
    /\ tc_pc = "scan" /\ tc_page < MaxTocPages
    /\ tc_page' = tc_page + 1
    /\ UNCHANGED <<tc_pc, tc_lines, tc_line, last_chapter_id, active_unit_id,
                   structured_data, tc_pre>>
    /\ TocOthersUnchanged

(* A line dropped before a chapter id is read: header or footer, empty or  *)
(* short, a decimal number, or no leading id.                              *)
TocLineFiltered ==
    /\ TocCanReadLine
    /\ tc_lines' = tc_lines + 1
    /\ tc_line' = None
    /\ UNCHANGED <<tc_pc, tc_page, last_chapter_id, active_unit_id,
                   structured_data, tc_pre>>
    /\ TocOthersUnchanged

(* A line whose candidate id regresses or jumps too far: continue.         *)
TocLineRejected ==
    \E line \in TocLines :
        /\ TocCanReadLine
        /\ CandidateRejected(line.id, last_chapter_id)
        /\ tc_lines' = tc_lines + 1
        /\ tc_line' = Some(line)
        /\ UNCHANGED <<tc_pc, tc_page, last_chapter_id, active_unit_id,
                       structured_data, tc_pre>>
        /\ TocOthersUnchanged

(* A line with an acceptable id but no usable name. A unit header has set  *)
(* active_unit_id before the final name is tested.                         *)
TocLineUnnamed ==
    \E line \in TocLines :
        /\ TocCanReadLine
        /\ ~CandidateRejected(line.id, last_chapter_id)
        /\ ~line.named
        /\ tc_lines' = tc_lines + 1
        /\ tc_line' = Some(line)
        /\ active_unit_id' = IF line.unit # None THEN Some(line.id)
                             ELSE active_unit_id
        /\ UNCHANGED <<tc_pc, tc_page, last_chapter_id, structured_data, tc_pre>>
        /\ TocOthersUnchanged

(* A line that is appended; on a unit header the leading id becomes the    *)
(* unit id and the inner number the chapter id.                            *)
TocLineAppended ==
    \E line \in TocLines :
        /\ TocCanReadLine
        /\ ~CandidateRejected(line.id, last_chapter_id)
        /\ line.named
        /\ LET unit_id == IF line.unit # None THEN Some(line.id)
                          ELSE active_unit_id
               chapter_id == IF line.unit # None THEN Val(line.unit)
                             ELSE line.id
           IN  /\ active_unit_id' = unit_id
               /\ structured_data' =
                      Append(structured_data,
                             [unit_id |-> unit_id, chapter_id |-> chapter_id,
                              start_page |-> line.start_p,
                              end_page |-> line.end_p])
               /\ last_chapter_id' = chapter_id
        /\ tc_lines' = tc_lines + 1
        /\ tc_line' = Some(line)
        /\ UNCHANGED <<tc_pc, tc_page, tc_pre>>
        /\ TocOthersUnchanged

(* The page loop is over: back-fill of end_page and return.                *)
TocBackfillReturn ==
    /\ tc_pc = "scan"
    /\ tc_pc' = "returned"
    /\ tc_pre' = structured_data
    /\ structured_data' = Backfill(structured_data)
    /\ UNCHANGED <<tc_page, tc_lines, tc_line, last_chapter_id, active_unit_id>>
    /\ TocOthersUnchanged

NextToc ==
    \/ TocNextPage
    \/ TocLineFiltered
    \/ TocLineRejected
    \/ TocLineUnnamed
    \/ TocLineAppended
    \/ TocBackfillReturn

SpecToc == InitToc /\ [][NextToc]_vars

-----------------------------------------------------------------------------
(* bind_figures                                    (semantics/semantics.py) *)

(* Longest block list handed to bind_figures.                              *)
MaxBindBlocks == 3

(* Blocks by the fields bind_figures reads or writes; caption is None      *)
(* while the block has no caption key.                                     *)
BindBlocks ==
    [content_label : {"VISUAL", "Text"},
     semantic_role : {"FIGURE_CAPTION", "BODY"},
     text          : {"a", "b"},
     caption       : {None}]

BindInputs == UNION {[1..n -> BindBlocks] : n \in 0..MaxBindBlocks}

(* Mutant of BindFrom: the caption is attached but the caption block is    *)
(* not skipped.                                                            *)
RECURSIVE BindFromNoSkip(_, _, _, _)
BindFromNoSkip(blocks, i, skip, merged) ==
    IF i > Len(blocks) THEN merged
    ELSE LET curr == blocks[i]
             binds == /\ curr.content_label = "VISUAL"
                      /\ i + 1 <= Len(blocks)
                      /\ blocks[i + 1].semantic_role = "FIGURE_CAPTION"
             out == IF binds
                    THEN [curr EXCEPT !.caption = Some(blocks[i + 1].text)]
                    ELSE curr
         IN  BindFromNoSkip(blocks, i + 1, FALSE, Append(merged, out))

(* The loop of bind_figures from position i on (1-based), with the skip    *)
(* flag and the list merged built so far.                                  *)
RECURSIVE BindFrom(_, _, _, _)
BindFrom(blocks, i, skip, merged) ==
    IF i > Len(blocks) THEN merged
    ELSE IF skip THEN BindFrom(blocks, i + 1, FALSE, merged)
    ELSE LET curr == blocks[i]
             binds == /\ curr.content_label = "VISUAL"
                      /\ i + 1 <= Len(blocks)
                      /\ blocks[i + 1].semantic_role = "FIGURE_CAPTION"
             out == IF binds
                    THEN [curr EXCEPT !.caption = Some(blocks[i + 1].text)]
                    ELSE curr
         IN  BindFrom(blocks, i + 1, binds, Append(merged, out))

bind_figures(blocks) == BindFrom(blocks, 1, FALSE, <<>>)

(* The page's blocks are built, bind_figures is about to be called.       *)
InitBind ==
    /\ PipelineIdle /\ MatcherIdle /\ TocIdle /\ ClassifyIdle /\ FinalizeIdle
    /\ HelperIdle
    /\ bf_called = FALSE /\ bf_blocks \in BindInputs /\ bf_ret = <<>>

(* The call bind_figures(blocks). *)
BindCall ==
    /\ ~bf_called
    /\ bf_called' = TRUE
    /\ bf_ret' = bind_figures(bf_blocks)
    /\ UNCHANGED <<bf_blocks, pipelineVars, matcherVars, tocVars, classifyVars,
                   finalizeVars, helperVars>>

NextBind == BindCall

SpecBind == InitBind /\ [][NextBind]_vars

-----------------------------------------------------------------------------
(* SemanticClassifier.classify                     (semantics/semantics.py, *)
(* SEMANTIC_PATTERNS of config.py)                                         *)
(* A text is a sequence of tokens; a token is a character or a word whose  *)
(* characters the patterns always treat together.                          *)

(* Most " shows" words appended to a text.                                 *)
MaxTailWords == 2

(* The length below which a text with digits is a page number.             *)
PageNumberMaxLen == 15

Digits == {"1", "2", "4"}

UpperWords == {"CIRCLES"}

(* len() of a token *)
TokLen(t) ==
    CASE t \in {"Exercise", "Activity"} -> 8
      [] t \in {"Example", "CIRCLES"}   -> 7
      [] t = "Figure"                   -> 6
      [] t \in {"\\frac", "shows"}      -> 5
      [] t = "Fig."                     -> 4
      [] t = "<b>"                      -> 3
      [] OTHER                          -> 1

(* len() of a text *)
RECURSIVE TextLen(_)
TextLen(text) ==
    IF text = <<>> THEN 0 ELSE TokLen(Head(text)) + TextLen(Tail(text))

DigitVal(t) == CASE t = "1" -> 1 [] t = "2" -> 2 [] t = "4" -> 4

(* First index >= i whose token is outside set, Len(text) + 1 when none.   *)
RECURSIVE RunEnd(_, _, _)
RunEnd(text, i, set) ==
    IF i > Len(text) \/ text[i] \notin set THEN i
    ELSE RunEnd(text, i + 1, set)

(* Number of tokens at the end of text that are in set.                    *)
RECURSIVE TrailingRun(_, _)
TrailingRun(text, set) ==
    IF text = <<>> \/ text[Len(text)] \notin set THEN 0
    ELSE 1 + TrailingRun(SubSeq(text, 1, Len(text) - 1), set)

(* re.sub(r'\{+\s*\}+', '', text) from index i on.                         *)
RECURSIVE DropEmptyGroups(_, _)
DropEmptyGroups(text, i) ==
    IF i > Len(text) THEN <<>>
    ELSE IF text[i] = "{"
    THEN LET j == RunEnd(text, i, {"{"})
             k == RunEnd(text, j, {" "})
         IN  IF k <= Len(text) /\ text[k] = "}"
             THEN DropEmptyGroups(text, RunEnd(text, k, {"}"}))
             ELSE <<text[i]>> \o DropEmptyGroups(text, i + 1)
    ELSE <<text[i]>> \o DropEmptyGroups(text, i + 1)

(* clean_latex_ocr_noise: a run of 5 or more of space ~ \ { } at the end   *)
(* is cut, ~ becomes a space, empty groups go. The texts of the model have *)
(* no \mathrm, \quad, \qquad or &, which the other steps rewrite.          *)
clean_latex_ocr_noise(text) ==
    LET n    == TrailingRun(text, {" ", "~", "{", "}"})
        cut  == IF n >= 5 THEN SubSeq(text, 1, Len(text) - n) ELSE text
        sp   == [i \in 1..Len(cut) |-> IF cut[i] = "~" THEN " " ELSE cut[i]]
    IN  DropEmptyGroups(sp, 1)

(* re.sub(r"\s+", " ", text).strip() *)
RECURSIVE CollapseSpaces(_, _)
CollapseSpaces(text, i) ==
    IF i > Len(text) THEN <<>>
    ELSE IF text[i] = " "
    THEN LET j == RunEnd(text, i, {" "})
         IN  IF i = 1 \/ j > Len(text) THEN CollapseSpaces(text, j)
             ELSE <<" ">> \o CollapseSpaces(text, j)
    ELSE <<text[i]>> \o CollapseSpaces(text, i + 1)

(* SemanticClassifier.clean_text: tags removed, LaTeX noise cleaned when   *)
(* the text has a backslash command or one of ^ { } $, whitespace          *)
(* normalised. Every token of the model is printable.                      *)
clean_text(text) ==
    LET untagged == SelectSeq(text, LAMBDA t : t # "<b>")
        is_latex == \E i \in 1..Len(untagged) :
                        untagged[i] \in {"\\frac", "^", "{", "}"}
        denoised == IF is_latex THEN clean_latex_ocr_noise(untagged)
                    ELSE untagged
    IN  CollapseSpaces(denoised, 1)

(* int(re.findall(r'\d+', cleaned)[0]): the digit run starting at i,       *)
(* continued from the value acc.                                           *)
RECURSIVE DigitRun(_, _, _)
DigitRun(text, i, acc) ==
    IF i > Len(text) \/ text[i] \notin Digits THEN acc
    ELSE DigitRun(text, i + 1, 10 * acc + DigitVal(text[i]))

(* First index >= i whose token is a digit, Len(text) + 1 when none.       *)
RECURSIVE FirstDigitIndex(_, _)
FirstDigitIndex(text, i) ==
    IF i > Len(text) \/ text[i] \in Digits THEN i
    ELSE FirstDigitIndex(text, i + 1)

(* \d+\.\d+ at index i *)
DecimalAt(text, i) ==
    LET j == RunEnd(text, i, Digits)
    IN  /\ j > i
        /\ j + 1 <= Len(text)
        /\ text[j] = "."
        /\ text[j + 1] \in Digits

(* <word>\s+(rest) at the start of a cleaned text: the index after the     *)
(* word and the whitespace, 0 when the text does not start that way.       *)
AfterWord(text, words) ==
    IF Len(text) >= 2 /\ text[1] \in words /\ text[2] = " " THEN 3 ELSE 0

(* SEMANTIC_PATTERNS[role].search(cleaned) *)
PatternMatches(role, text) ==
    CASE role = "CHAPTER" ->
             /\ \A i \in 1..Len(text) : text[i] \in UpperWords \cup {" "}
             /\ TextLen(text) >= 5 /\ TextLen(text) <= 25
      [] role = "SECTION" ->
             \/ DecimalAt(text, 1)
             \/ LET k == AfterWord(text, {"Exercise"})
                IN  k # 0 /\ DecimalAt(text, k)
      [] role = "ACTIVITY" ->
             LET k == AfterWord(text, {"Activity"})
             IN  k # 0 /\ k <= Len(text) /\ text[k] \in Digits
      [] role = "EXAMPLE" ->
             LET k == AfterWord(text, {"Example"})
             IN  k # 0 /\ k <= Len(text) /\ text[k] \in Digits
      [] role = "FIGURE_CAPTION" ->
             LET k == AfterWord(text, {"Fig.", "Figure"})
             IN  k # 0 /\ DecimalAt(text, k)

PatternRoles == <<"CHAPTER", "SECTION", "ACTIVITY", "EXAMPLE", "FIGURE_CAPTION">>

(* The loop over the pattern table from position i on: first match wins.   *)
RECURSIVE FirstPattern(_, _)
FirstPattern(text, i) ==
    IF i > Len(PatternRoles) THEN "BODY"
    ELSE IF PatternMatches(PatternRoles[i], text) THEN PatternRoles[i]
    ELSE FirstPattern(text, i + 1)

(* SemanticClassifier.classify(text); the empty text stands for "" and for *)
(* None. page_number is None when the result has no such key.              *)
classify(text) ==
    IF text = <<>> THEN [role |-> "UNKNOWN", clean_text |-> <<>>,
                         page_number |-> None]
    ELSE LET cleaned == clean_text(text)
             d == FirstDigitIndex(cleaned, 1)
         IN  IF TextLen(cleaned) < PageNumberMaxLen /\ d <= Len(cleaned)
             THEN [role |-> "PAGE_NUMBER", clean_text |-> cleaned,
                   page_number |-> Some(DigitRun(cleaned, d, 0))]
             ELSE IF \E i \in 1..Len(cleaned) :
                        cleaned[i] \in {"\\frac", "^", "_", "{", "}"}
             THEN [role |-> "EQUATION", clean_text |-> cleaned,
                   page_number |-> None]
             ELSE IF /\ TextLen(cleaned) <= 15
                     /\ cleaned # <<>>
                     /\ cleaned[Len(cleaned)] = "CIRCLES"
             THEN [role |-> "CHAPTER", clean_text |-> <<"CIRCLES">>,
                   page_number |-> None]
             ELSE [role |-> FirstPattern(cleaned, 1), clean_text |-> cleaned,
                   page_number |-> None]

(* The texts classified: a start, a middle and an end.                     *)
ClassifyHeads ==
    {<<>>, <<" ">>, <<"<b>">>, <<"Exercise", " ">>, <<"Fig.", " ">>,
     <<"Figure", " ", " ">>, <<"Activity", " ">>, <<"Example", " ">>,
     <<"\\frac">>, <<"CIRCLES">>}

ClassifyMids ==
    {<<>>, <<"1", "2", "2">>, <<"4", ".", "1">>,
     <<"{", "1", "}", "{", "2", "}">>, <<"x", "^", "2">>, <<"x", "_", "x">>,
     <<"{", " ", "}">>}

RECURSIVE TailWords(_)
TailWords(k) == IF k = 0 THEN <<>> ELSE <<" ", "shows">> \o TailWords(k - 1)

ClassifyTails ==
    {TailWords(k) : k \in 0..MaxTailWords}
        \cup {<<" ">>, <<"}", "}", "~", "~", " ">>}

ClassifyInputs ==
    {h \o m \o t : h \in ClassifyHeads, m \in ClassifyMids, t \in ClassifyTails}

(* A text has been read from a block, classify is about to be called.      *)
InitClassify ==
    /\ PipelineIdle /\ MatcherIdle /\ TocIdle /\ BindIdle /\ FinalizeIdle
    /\ HelperIdle
    /\ cl_called = FALSE /\ cl_text \in ClassifyInputs
    /\ cl_ret = [role |-> "", clean_text |-> <<>>, page_number |-> None]

(* The call classify(text). *)
ClassifyCall ==
    /\ ~cl_called
    /\ cl_called' = TRUE
    /\ cl_ret' = classify(cl_text)
    /\ UNCHANGED <<cl_text, pipelineVars, matcherVars, tocVars, bindVars,
                   finalizeVars, helperVars>>

NextClassify == ClassifyCall

SpecClassify == InitClassify /\ [][NextClassify]_vars

-----------------------------------------------------------------------------
(* finalize_output                                  (exporters/exporter.py) *)

(* Most blocks counted in state["total_blocks"] and most lines of the      *)
(* staging file.                                                           *)
MaxStagedBlocks == 2

(* The staging file at temp_path: None when it does not exist, else its    *)
(* number of lines and whether one of them is not valid JSON.              *)
StagingFiles ==
    {None} \cup {Some([lines |-> n, corrupt |-> c]) :
                    n \in 0..MaxStagedBlocks, c \in BOOLEAN}

(* finalize_output is entered. fo_final is "absent", "stale" (a file of an *)
(* earlier run), "partial" (opened for writing, not completed) or          *)
(* "complete" (written by this call).                                      *)
InitFinalize ==
    /\ PipelineIdle /\ MatcherIdle /\ TocIdle /\ BindIdle /\ ClassifyIdle
    /\ HelperIdle
    /\ fo_pc = "entry"
    /\ fo_total_blocks \in 0..MaxStagedBlocks
    /\ fo_temp \in StagingFiles
    /\ fo_temp0 = fo_temp
    /\ fo_final \in {"absent", "stale"}
    /\ fo_final_data = 0
    /\ fo_debug \in BOOLEAN
    /\ fo_debug_saved = FALSE

FinalizeOthersUnchanged ==
    UNCHANGED <<pipelineVars, matcherVars, tocVars, bindVars, classifyVars,
                helperVars>>

(* Lines 25-26: no blocks, a warning only. *)
FoEmpty ==
    /\ fo_pc = "entry" /\ fo_total_blocks = 0
    /\ fo_pc' = "done"
    /\ UNCHANGED <<fo_total_blocks, fo_temp, fo_temp0, fo_final, fo_final_data,
                   fo_debug, fo_debug_saved>>
    /\ FinalizeOthersUnchanged

(* Line 17: the staging file does not exist. *)
FoNoTemp ==
    /\ fo_pc = "entry" /\ fo_total_blocks > 0 /\ fo_temp = None
    /\ fo_pc' = "debug"
    /\ UNCHANGED <<fo_total_blocks, fo_temp, fo_temp0, fo_final, fo_final_data,
                   fo_debug, fo_debug_saved>>
    /\ FinalizeOthersUnchanged

(* Mutant of FoRead: the staging file is removed as soon as it is read.    *)
FoReadThenRemove ==
    /\ fo_pc = "entry" /\ fo_total_blocks > 0
    /\ fo_temp # None /\ ~Val(fo_temp).corrupt
    /\ fo_pc' = "save"
    /\ fo_final_data' = Val(fo_temp).lines
    /\ fo_temp' = None
    /\ UNCHANGED <<fo_total_blocks, fo_temp0, fo_final, fo_debug,
                   fo_debug_saved>>
    /\ FinalizeOthersUnchanged

(* Lines 18-19: every line of the staging file is parsed. *)
FoRead ==
    /\ fo_pc = "entry" /\ fo_total_blocks > 0
    /\ fo_temp # None /\ ~Val(fo_temp).corrupt
    /\ fo_pc' = "save"
    /\ fo_final_data' = Val(fo_temp).lines
    /\ UNCHANGED <<fo_total_blocks, fo_temp, fo_temp0, fo_final, fo_debug,
                   fo_debug_saved>>
    /\ FinalizeOthersUnchanged

(* Line 19: json.loads raises on a line. *)
FoReadRaises ==
    /\ fo_pc = "entry" /\ fo_total_blocks > 0
    /\ fo_temp # None /\ Val(fo_temp).corrupt
    /\ fo_pc' = "raised"
    /\ UNCHANGED <<fo_total_blocks, fo_temp, fo_temp0, fo_final, fo_final_data,
                   fo_debug, fo_debug_saved>>
    /\ FinalizeOthersUnchanged

(* Line 20: save_json writes the final file. *)
FoSaveJson ==
    /\ fo_pc = "save"
    /\ fo_pc' = "remove"
    /\ fo_final' = "complete"
    /\ UNCHANGED <<fo_total_blocks, fo_temp, fo_temp0, fo_final_data, fo_debug,
                   fo_debug_saved>>
    /\ FinalizeOthersUnchanged

(* Line 20: save_json raises, in open (the final file is as it was) or in  *)
(* json.dump (the final file is truncated and incomplete).                 *)
FoSaveRaises ==
    /\ fo_pc = "save"
    /\ fo_pc' = "raised"
    /\ fo_final' \in {fo_final, "partial"}
    /\ UNCHANGED <<fo_total_blocks, fo_temp, fo_temp0, fo_final_data, fo_debug,
                   fo_debug_saved>>
    /\ FinalizeOthersUnchanged

(* Line 21: os.remove(temp_path). *)
FoRemove ==
    /\ fo_pc = "remove"
    /\ fo_pc' = "debug"
    /\ fo_temp' = None
    /\ UNCHANGED <<fo_total_blocks, fo_temp0, fo_final, fo_final_data, fo_debug,
                   fo_debug_saved>>
    /\ FinalizeOthersUnchanged

(* Line 21: os.remove raises. *)
FoRemoveRaises ==
    /\ fo_pc = "remove"
    /\ fo_pc' = "raised"
    /\ UNCHANGED <<fo_total_blocks, fo_temp, fo_temp0, fo_final, fo_final_data,
                   fo_debug, fo_debug_saved>>
    /\ FinalizeOthersUnchanged

(* Lines 22-24: the debug PDF is saved when asked for and there are        *)
(* images.                                                                 *)
FoDebugExport ==
    /\ fo_pc = "debug"
    /\ fo_pc' = "done"
    /\ fo_debug_saved' = fo_debug
    /\ UNCHANGED <<fo_total_blocks, fo_temp, fo_temp0, fo_final, fo_final_data,
                   fo_debug>>
    /\ FinalizeOthersUnchanged

(* Line 23: exporter.save raises. *)
FoDebugRaises ==
    /\ fo_pc = "debug" /\ fo_debug
    /\ fo_pc' = "raised"
    /\ UNCHANGED <<fo_total_blocks, fo_temp, fo_temp0, fo_final, fo_final_data,
                   fo_debug, fo_debug_saved>>
    /\ FinalizeOthersUnchanged

NextFinalize ==
    \/ FoEmpty
    \/ FoNoTemp
    \/ FoRead
    \/ FoReadRaises
    \/ FoSaveJson
    \/ FoSaveRaises
    \/ FoRemove
    \/ FoRemoveRaises
    \/ FoDebugExport
    \/ FoDebugRaises

SpecFinalize == InitFinalize /\ [][NextFinalize]_vars

-----------------------------------------------------------------------------
(* get_toc_metadata, nested in run_single_page (modules/extract.py,        *)
(* lines 28-54).                                                           *)

coreVars == <<pipelineVars, matcherVars, tocVars, bindVars, classifyVars,
              finalizeVars>>

CoreIdle ==
    /\ PipelineIdle /\ MatcherIdle /\ TocIdle /\ BindIdle /\ ClassifyIdle
    /\ FinalizeIdle

(* Longest hierarchy list handed to get_toc_metadata.                      *)
MaxHierarchyLen == 2

(* Hierarchy entries by the keys get_toc_metadata and resolve_hierarchy    *)
(* read.                                                                   *)
HierarchyEntries ==
    [start_page   : {None, Some(1), Some(10)},
     end_page     : {None, Some(9), Some(20)},
     chapter_id   : {Some(1), Some(2)},
     chapter_name : {None, Some("Circles")}]

(* The hierarchy lists; the empty list also stands for hierarchy = None    *)
(* (both are falsy at line 32 and give StructuralMatcher an empty index).  *)
Hierarchies == UNION {[1..n -> HierarchyEntries] : n \in 0..MaxHierarchyLen}

(* The printed page numbers tracker.resolve hands on: None or an integer.  *)
TocMetaPages == {None, Some(0), Some(5), Some(15), Some(25)}

NullMetadata == [chapter_id |-> None, chapter_name |-> None]

(* The loop without the open-ended case of lines 51-52.                    *)
RECURSIVE TocMetadataClosedOnly(_, _, _)
TocMetadataClosedOnly(h_data, current_page, i) ==
    IF i > Len(h_data) THEN NullMetadata
    ELSE LET entry == h_data[i]
             start == entry.start_page
             end   == entry.end_page
         IN  IF /\ start # None /\ end # None
                /\ Val(start) <= current_page /\ current_page <= Val(end)
             THEN [chapter_id |-> entry.chapter_id,
                   chapter_name |-> entry.chapter_name]
             ELSE TocMetadataClosedOnly(h_data, current_page, i + 1)

(* Lines 41-54: the loop over the entries from position i on.              *)
RECURSIVE TocMetadataFrom(_, _, _)
TocMetadataFrom(h_data, current_page, i) ==
    IF i > Len(h_data) THEN NullMetadata
    ELSE LET entry == h_data[i]
             start == entry.start_page
             end   == entry.end_page
             found == [chapter_id |-> entry.chapter_id,
                       chapter_name |-> entry.chapter_name]
         IN  IF start # None /\ end # None
             THEN IF Val(start) <= current_page /\ current_page <= Val(end)
                  THEN found
                  ELSE TocMetadataFrom(h_data, current_page, i + 1)
             ELSE IF start # None /\ current_page >= Val(start)
                  THEN found
                  ELSE TocMetadataFrom(h_data, current_page, i + 1)

(* get_toc_metadata(current_page, h_data); int(current_page) at line 37    *)
(* leaves the integers of the tracker as they are.                         *)
get_toc_metadata(current_page, h_data) ==
    IF h_data = <<>> \/ current_page = None
    THEN NullMetadata
    ELSE TocMetadataFrom(h_data, Val(current_page), 1)

InitTocMeta ==
    /\ CoreIdle /\ SyncIdle /\ StrategyIdle /\ SortingIdle /\ BlockIdle
    /\ gm_called = FALSE /\ gm_ret = None
    /\ gm_in \in Hierarchies \X TocMetaPages

(* Line 76: chapter_info = get_toc_metadata(printed_no, hierarchy_data).   *)
TocMetaCall ==
    /\ ~gm_called
    /\ gm_called' = TRUE
    /\ gm_ret' = Some(get_toc_metadata(gm_in[2], gm_in[1]))
    /\ UNCHANGED <<gm_in, coreVars, syncVars, strategyVars, sortingVars,
                   blockVars>>

NextTocMeta == TocMetaCall

SpecTocMeta == InitTocMeta /\ [][NextTocMeta]_vars

-----------------------------------------------------------------------------
(* The block loops: main's scholar phase (main.py, lines 201-254) and      *)
(* run_single_page (modules/extract.py, lines 70-92).                      *)

(* Most boxes on a page.                                                   *)
MaxPageBoxes == 2

(* LABEL_MAP.get(label, "TEXT") for the labels of the model.               *)
LabelGroup(label) ==
    CASE label \in {"Picture", "Figure", "Image", "Graphic"} -> "VISUAL"
      [] label \in {"Formula", "Equation"}                   -> "MATH"
      [] label = "Table"                                      -> "TABLE"
      [] OTHER                                                -> "TEXT"

(* A box by its layout label and by what OCR and classify make of its      *)
(* crop: the role and the clean text.                                      *)
PageBoxes ==
    [label : {"Text", "Picture", "PageFooter", "Footnote"},
     role  : {"PAGE_NUMBER", "FIGURE_CAPTION", "BODY"},
     text  : {"a", "b"}]

BlockLoops == {"main", "run_single_page"}

BlockInputs ==
    BlockLoops \X UNION {[1..n -> PageBoxes] : n \in 0..MaxPageBoxes}

(* extract_text_block hands classify the placeholder                       *)
(* "[FIGURE_OR_IMAGE_BLOCK]" for a VISUAL box (pipeline_utils.py, lines    *)
(* 67-69), which classify makes an EQUATION; main runs OCR on every box.   *)
ClassifiedRole(loop, box) ==
    IF loop = "run_single_page" /\ LabelGroup(box.label) = "VISUAL"
    THEN "EQUATION"
    ELSE box.role

(* main.py, lines 202-250: the blocks of the page before bind_figures.     *)
RECURSIVE ScholarBlocks(_)
ScholarBlocks(boxes) ==
    IF boxes = <<>> THEN <<>>
    ELSE LET box == Head(boxes)
             semantic_role == ClassifiedRole("main", box)
             text_out == IF semantic_role # "FIGURE_BLOCK" THEN box.text ELSE ""
         IN  IF box.label \in {"PageFooter", "Footnote"}
             THEN ScholarBlocks(Tail(boxes))
             ELSE IF semantic_role = "PAGE_NUMBER"
             THEN ScholarBlocks(Tail(boxes))
             ELSE <<[content_label |-> box.label,
                     semantic_role |-> semantic_role,
                     text |-> text_out,
                     caption |-> None]>> \o ScholarBlocks(Tail(boxes))

(* main.py, lines 201-254: the blocks the page adds to final_output.       *)
ScholarPage(boxes) == bind_figures(ScholarBlocks(boxes))

(* extract.py, lines 70-90: page_blocks of run_single_page.                *)
RECURSIVE SinglePageBlocks(_)
SinglePageBlocks(boxes) ==
    IF boxes = <<>> THEN <<>>
    ELSE LET box == Head(boxes)
             res_role == ClassifiedRole("run_single_page", box)
             role == IF LabelGroup(box.label) = "VISUAL"
                     THEN "FIGURE_BLOCK" ELSE res_role
             text_out == IF role = "FIGURE_BLOCK" THEN "" ELSE box.text
         IN  IF res_role = "PAGE_NUMBER"
             THEN SinglePageBlocks(Tail(boxes))
             ELSE <<[content_label |-> box.label,
                     semantic_role |-> role,
                     text |-> text_out,
                     caption |-> None]>> \o SinglePageBlocks(Tail(boxes))

InitBlocks ==
    /\ CoreIdle /\ TocMetaIdle /\ SyncIdle /\ StrategyIdle /\ SortingIdle
    /\ bl_called = FALSE /\ bl_ret = None
    /\ bl_in \in BlockInputs

BlocksOthersUnchanged ==
    UNCHANGED <<bl_in, coreVars, tocMetaVars, syncVars, strategyVars, sortingVars>>

(* One page of main's scholar phase.                                       *)
ScholarPageRun ==
    /\ ~bl_called /\ bl_in[1] = "main"
    /\ bl_called' = TRUE
    /\ bl_ret' = Some(ScholarPage(bl_in[2]))
    /\ BlocksOthersUnchanged

(* One call of run_single_page.                                            *)
SinglePageRun ==
    /\ ~bl_called /\ bl_in[1] = "run_single_page"
    /\ bl_called' = TRUE
    /\ bl_ret' = Some(SinglePageBlocks(bl_in[2]))
    /\ BlocksOthersUnchanged

NextBlocks ==
    \/ ScholarPageRun
    \/ SinglePageRun

SpecBlocks == InitBlocks /\ [][NextBlocks]_vars

-----------------------------------------------------------------------------
(* run_sync_phase (processing/pipeline_utils.py, lines 33-59; the copy in  *)
(* processing/pipeline.py, lines 24-45, has the same body).                *)

(* Most boxes on the page handed to run_sync_phase.                        *)
MaxSyncBoxes == 4

(* boxes[:3] *)
SyncBoxLimit == 3

(* The page height of the model; y1 < height * 0.3 is 10 * y1 < 3 * height *)
SyncPageHeight == 1000

(* Texts are sequences of characters. The anchors: None, "ab ba" and       *)
(* "a ab ba".                                                              *)
SyncAnchors ==
    {None,
     Some(<<"a", "b", " ", "b", "a">>),
     Some(<<"a", " ", "a", "b", " ", "b", "a">>)}

(* What OCR reads in a crop: "ba ab", "Ab ba ", "ab bab", "ab", "" and     *)
(* "bb bb".                                                                *)
SyncTexts ==
    {<<"b", "a", " ", "a", "b">>,
     <<"A", "b", " ", "b", "a", " ">>,
     <<"a", "b", " ", "b", "a", "b">>,
     <<"a", "b">>,
     <<>>,
     <<"b", "b", " ", "b", "b">>}

(* Boxes by label, top edge y1 and the text OCR reads in their crop.       *)
SyncBoxes ==
    {b \in [label : {"Title", "Picture"}, y1 : {299, 300}, text : SyncTexts] :
        \/ b.label = "Title" /\ b.y1 = 299
        \/ b.text = <<"b", "a", " ", "a", "b">>}

SyncInputs ==
    SyncAnchors \X UNION {[1..n -> SyncBoxes] : n \in 0..MaxSyncBoxes}

(* str.lower() *)
Lower(t) == [i \in 1..Len(t) |-> IF t[i] = "A" THEN "a" ELSE t[i]]

(* set(re.findall(r'\w+', t)): the maximal runs of word characters.        *)
WordSet(t) ==
    {SubSeq(t, i, j) : <<i, j>> \in
        {<<i, j>> \in (1..Len(t)) \X (1..Len(t)) :
            /\ i <= j
            /\ \A k \in i..j : ~IsSpace(t[k])
            /\ (i = 1 \/ IsSpace(t[i - 1]))
            /\ (j = Len(t) \/ IsSpace(t[j + 1]))}}

(* Lines 46-58 for one box: the text detected and whether it confirms the  *)
(* anchor.                                                                 *)
DetectedText(box) == Strip(Lower(box.text))

BoxConfirms(anchor, box) ==
    LET detected_text == DetectedText(box)
        anchor_words == WordSet(Lower(anchor))
        detected_words == WordSet(Lower(detected_text))
    IN  /\ detected_text # <<>> /\ Len(detected_text) > 3
        /\ anchor_words \subseteq detected_words /\ anchor_words # {}

(* Lines 41-44: the label and position filter.                             *)
SyncCandidate(box) ==
    /\ box.label \in {"SectionHeader", "Text", "Title", "PageHeader"}
    /\ 10 * box.y1 < 3 * SyncPageHeight

(* Lines 40-59: the loop over boxes[:3] from position i on.                *)
RECURSIVE SyncFrom(_, _, _)
SyncFrom(anchor, boxes, i) ==
    IF i > Len(boxes) \/ i > SyncBoxLimit THEN FALSE
    ELSE IF SyncCandidate(boxes[i]) /\ BoxConfirms(anchor, boxes[i])
    THEN TRUE
    ELSE SyncFrom(anchor, boxes, i + 1)

(* run_sync_phase(image, boxes, ocr_engine, model, target_anchor, ...)     *)
run_sync_phase(boxes, anchor) ==
    IF anchor = None THEN FALSE
    ELSE SyncFrom(Val(anchor), boxes, 1)

InitSync ==
    /\ CoreIdle /\ TocMetaIdle /\ StrategyIdle /\ SortingIdle /\ BlockIdle
    /\ sy_called = FALSE /\ sy_ret = None
    /\ sy_in \in SyncInputs

(* scout_sync.py, line 126: the call.                                      *)
SyncCall ==
    /\ ~sy_called
    /\ sy_called' = TRUE
    /\ sy_ret' = Some(run_sync_phase(sy_in[2], sy_in[1]))
    /\ UNCHANGED <<sy_in, coreVars, tocMetaVars, strategyVars, sortingVars,
                   blockVars>>

NextSync == SyncCall

SpecSync == InitSync /\ [][NextSync]_vars

-----------------------------------------------------------------------------
(* find_printed_page_no and its detectors (processing/page_strategy.py).   *)

(* Most boxes on the page handed to find_printed_page_no.                  *)
MaxStrategyBoxes == 3

(* A box by its label, by what its text gives (leading: the number         *)
(* re.match(r'^(\d+)') finds, page_number: the number classify reports     *)
(* with role PAGE_NUMBER, None when there is none) and by whether it       *)
(* touches a corner region of the page (lines 97-102).                     *)
StrategyBoxes ==
    [label       : {"Text", "Picture"},
     leading     : {None, Some(7)},
     page_number : {None, Some(8)},
     corner      : BOOLEAN]

Strategies == {"HEADER", "FOOTER", "CORNERS", "AUTO"}

StrategyInputs ==
    Strategies \X UNION {[1..n -> StrategyBoxes] : n \in 0..MaxStrategyBoxes}

(* What a detector does: it raises, or returns value (None or a number).   *)
Returned(v) == [raised |-> FALSE, value |-> v]
Raised == [raised |-> TRUE, value |-> None]

(* _extract_page_val and lines 73-82: the leading number, else the number  *)
(* of a text classified PAGE_NUMBER, else None.                            *)
PageVal(box) == IF box.leading # None THEN box.leading ELSE box.page_number

(* _detect_from_header, lines 29-46: boxes[:2] is a list, so box.label at  *)
(* line 37 raises AttributeError whenever the page has a box.              *)
DetectFromHeader(boxes) ==
    IF boxes = <<>> THEN Returned(None) ELSE Raised

(* _detect_from_footer, lines 48-86: the last two boxes in reading order,  *)
(* from position idx on.                                                   *)
RECURSIVE FooterFrom(_, _)
FooterFrom(boxes, idx) ==
    IF idx > Len(boxes) THEN None
    ELSE IF LabelGroup(boxes[idx].label) = "VISUAL" THEN FooterFrom(boxes, idx + 1)
    ELSE IF PageVal(boxes[idx]) # None THEN PageVal(boxes[idx])
    ELSE FooterFrom(boxes, idx + 1)

DetectFromFooter(boxes) ==
    Returned(FooterFrom(boxes, IF Len(boxes) > 2 THEN Len(boxes) - 1 ELSE 1))

(* _detect_from_corners, lines 88-109: every non-VISUAL box in a corner    *)
(* region, by classification only.                                         *)
RECURSIVE CornersFrom(_, _)
CornersFrom(boxes, i) ==
    IF i > Len(boxes) THEN None
    ELSE IF LabelGroup(boxes[i].label) = "VISUAL" THEN CornersFrom(boxes, i + 1)
    ELSE IF boxes[i].corner /\ boxes[i].page_number # None
    THEN boxes[i].page_number
    ELSE CornersFrom(boxes, i + 1)

DetectFromCorners(boxes) == Returned(CornersFrom(boxes, 1))

(* find_printed_page_no(image, boxes, ..., strategy), lines 111-144.       *)
find_printed_page_no(boxes, strategy) ==
    CASE strategy = "HEADER"  -> DetectFromHeader(boxes)
      [] strategy = "FOOTER"  -> DetectFromFooter(boxes)
      [] strategy = "CORNERS" -> DetectFromCorners(boxes)
      [] strategy = "AUTO"    ->
            LET h == DetectFromHeader(boxes)
                f == DetectFromFooter(boxes)
            IN  IF h.raised \/ h.value # None THEN h
                ELSE IF f.raised \/ f.value # None THEN f
                ELSE DetectFromCorners(boxes)
      [] OTHER -> Returned(None)

InitStrategy ==
    /\ CoreIdle /\ TocMetaIdle /\ SyncIdle /\ SortingIdle /\ BlockIdle
    /\ ps_called = FALSE /\ ps_ret = None
    /\ ps_in \in StrategyInputs

(* extract.py, lines 63-66: the call.                                      *)
StrategyCall ==
    /\ ~ps_called
    /\ ps_called' = TRUE
    /\ ps_ret' = Some(find_printed_page_no(ps_in[2], ps_in[1]))
    /\ UNCHANGED <<ps_in, coreVars, tocMetaVars, syncVars, sortingVars,
                   blockVars>>

NextStrategy == StrategyCall

SpecStrategy == InitStrategy /\ [][NextStrategy]_vars

-----------------------------------------------------------------------------
(* get_unified_sorting (processing/optimize_layout.py, lines 94-128).      *)

(* Most boxes handed to get_unified_sorting.                               *)
MaxSortBoxes == 3

(* The tolerance run_single_page passes (extract.py, line 59).             *)
SortTolerance == 40

(* raw_boxes: box number id of the list has left edge x = bbox[0] and top  *)
(* edge y = bbox[1].                                                       *)
SortInputs ==
    UNION {{bs \in [1..n -> [id : 1..n, x : {0, 50}, y : {0, 30, 100}]] :
               \A i \in 1..n : bs[i].id = i} : n \in 0..MaxSortBoxes}

AbsDiff(a, b) == IF a >= b THEN a - b ELSE b - a

(* sorted(seq, key=...) is stable: b goes behind every element whose key   *)
(* is not larger.                                                          *)
RECURSIVE InsertByY(_, _)
InsertByY(sorted, b) ==
    IF sorted = <<>> THEN <<b>>
    ELSE IF Head(sorted).y <= b.y THEN <<Head(sorted)>> \o InsertByY(Tail(sorted), b)
    ELSE <<b>> \o sorted

RECURSIVE SortByY(_)
SortByY(seq) ==
    IF seq = <<>> THEN <<>>
    ELSE InsertByY(SortByY(SubSeq(seq, 1, Len(seq) - 1)), seq[Len(seq)])

RECURSIVE InsertByX(_, _)
InsertByX(sorted, b) ==
    IF sorted = <<>> THEN <<b>>
    ELSE IF Head(sorted).x <= b.x THEN <<Head(sorted)>> \o InsertByX(Tail(sorted), b)
    ELSE <<b>> \o sorted

RECURSIVE SortByX(_)
SortByX(seq) ==
    IF seq = <<>> THEN <<>>
    ELSE InsertByX(SortByX(SubSeq(seq, 1, Len(seq) - 1)), seq[Len(seq)])

(* Lines 107-120: the grouping loop over boxes from position i on; a box   *)
(* within the tolerance of the previous one replaces current_row (line     *)
(* 115), a box further down closes it (lines 117-118).                     *)
RECURSIVE GroupRows(_, _, _, _, _)
GroupRows(boxes, i, rows, current_row, tolerance) ==
    IF i > Len(boxes) THEN Append(rows, current_row)
    ELSE LET box == boxes[i]
             prev == current_row[Len(current_row)]
         IN  IF AbsDiff(box.y, prev.y) <= tolerance
             THEN GroupRows(boxes, i + 1, rows, <<box>>, tolerance)
             ELSE GroupRows(boxes, i + 1, Append(rows, current_row), <<box>>, tolerance)

(* Lines 123-126: every row sorted left to right, the rows concatenated.   *)
RECURSIVE OrderRows(_)
OrderRows(rows) ==
    IF rows = <<>> THEN <<>>
    ELSE SortByX(Head(rows)) \o OrderRows(Tail(rows))

get_unified_sorting(raw_boxes, tolerance) ==
    IF raw_boxes = <<>> THEN <<>>
    ELSE LET boxes == SortByY(raw_boxes)
         IN  OrderRows(GroupRows(boxes, 2, <<>>, <<boxes[1]>>, tolerance))

InitSorting ==
    /\ CoreIdle /\ TocMetaIdle /\ SyncIdle /\ StrategyIdle /\ BlockIdle
    /\ us_called = FALSE /\ us_ret = None
    /\ \E raw_boxes \in SortInputs : us_in = <<raw_boxes>>

(* extract.py, line 59: get_unified_sorting(..., 40).                      *)
SortingCall ==
    /\ ~us_called
    /\ us_called' = TRUE
    /\ us_ret' = Some(get_unified_sorting(us_in[1], SortTolerance))
    /\ UNCHANGED <<us_in, coreVars, tocMetaVars, syncVars, strategyVars,
                   blockVars>>

NextSorting == SortingCall

SpecSorting == InitSorting /\ [][NextSorting]_vars

-----------------------------------------------------------------------------
(* Properties of PageNumberTracker.resolve, checked under SpecTracker.     *)

(* C1: once the offset is set it never changes and never returns to None,  *)
(* and every later call resolve(p, d) returns p + offset, whatever d is.   *)
C1_OffsetLockedForever ==
    [][offset # None =>
          /\ offset' = offset
          /\ t_ret' = Some(t_page' + Val(offset))]_vars

(* C1 witness: a call on a locked tracker whose valid detection disagrees  *)
(* with the projection returned the projection.                            *)
C1_Witness ==
    /\ t_called /\ t_pre # None
    /\ NormalizeDetected(t_detected) # None
    /\ Val(t_detected) # t_page + Val(t_pre)
    /\ offset = t_pre
    /\ t_ret = Some(t_page + Val(t_pre))

(* C4: on an unlocked tracker a detection d in 1..2000 sets the offset to  *)
(* d - physical_page and is returned; a null detection returns null and    *)
(* leaves the offset null.                                                 *)
C4_UnlockedResolve ==
    (t_called /\ t_pre = None) =>
        /\ (t_detected # None /\ Val(t_detected) \in 1..MaxPrintedPage) =>
               (offset = Some(Val(t_detected) - t_page) /\ t_ret = t_detected)
        /\ (t_detected = None) => (offset = None /\ t_ret = None)

(* C4 witness: the first detection 13 on physical page 3 locked offset 10. *)
C4_Witness ==
    /\ t_called /\ t_pre = None
    /\ t_page = 3 /\ t_detected = Some(13)
    /\ offset = Some(10) /\ t_ret = Some(13)

(* C5: in every tracker state a detection d <= 0 or d > 2000 gives the     *)
(* return value and the offset that a null detection gives; 2000 is        *)
(* accepted and 2001 is rejected.                                          *)
C5_AbsurdTreatedAsNone ==
    t_called =>
        /\ (t_detected # None
            /\ (Val(t_detected) <= 0 \/ Val(t_detected) > MaxPrintedPage)) =>
               [offset |-> offset, ret |-> t_ret] = Resolve(t_pre, t_page, None)
        /\ (t_pre = None /\ t_detected = Some(MaxPrintedPage)) =>
               (offset = Some(MaxPrintedPage - t_page) /\ t_ret = Some(MaxPrintedPage))
        /\ (t_pre = None /\ t_detected = Some(MaxPrintedPage + 1)) =>
               (offset = None /\ t_ret = None)

(* C5 witness: an absurd detection on a locked tracker returned the        *)
(* projection and left the offset alone.                                   *)
C5_Witness ==
    /\ t_called /\ t_pre # None
    /\ t_detected = Some(5000)
    /\ offset = t_pre
    /\ t_ret = Some(t_page + Val(t_pre))

-----------------------------------------------------------------------------
(* Properties of run_deep_extraction, checked under SpecExtract.           *)

Terminated == e_pc \in {"done", "raised"}

EmittedPages == [i \in 1..Len(emitted) |-> emitted[i].page]

EmittedRecords ==
    {emitted[i].recs[j] : <<i, j>> \in
        {<<i, j>> \in (1..Len(emitted)) \X (1..MaxBlocks) : j <= Len(emitted[i].recs)}}

(* C2: once the tracker offset is set, every emitted record has            *)
(* page_number = pdf_page + offset (nothing is emitted before the lock on  *)
(* a run that locks).                                                      *)
C2_EmittedUsesOffset ==
    offset # None =>
        \A r \in EmittedRecords : r.page_number = Some(r.pdf_page + Val(offset))

(* C3: when the generator has ended, on either exit path, the batches      *)
(* yielded are those of the fully processed pages, each exactly once, in   *)
(* ascending physical-page order.                                          *)
C3_EachBatchOnceInOrder ==
    Terminated => EmittedPages = processed

(* C6: when the last page has been reached and the offset never locked,    *)
(* every buffered page has been emitted and each of its records carries    *)
(* its physical page number as page_number.                                *)
C6_FallbackUsesPhysicalPage ==
    (e_pc = "done" /\ offset = None) =>
        /\ EmittedPages = processed
        /\ \A r \in EmittedRecords : r.page_number = Some(r.pdf_page)

(* C7: an exception raised while processing page p does not end the run:   *)
(* every later page up to total_pages is processed and its batch emitted.  *)
C7_RunContinuesAfterPageError ==
    (Terminated /\ raised_page # 0) =>
        \A p \in (raised_page + 1)..total_pages :
            /\ \E i \in 1..Len(processed) : processed[i] = p
            /\ \E i \in 1..Len(emitted) : emitted[i].page = p

-----------------------------------------------------------------------------
(* Properties of main's page loop, checked under SpecMain.                 *)

MainPhase ==
    IF scholar_mode_active THEN 3 ELSE IF is_discovering_toc THEN 2 ELSE 1

(* C8: the phases are entered only in the order SCOUTING, DISCOVERING_TOC, *)
(* SCHOLAR; once scholar_mode_active is true it stays true and no scout or *)
(* sync step runs again; is_discovering_toc and scholar_mode_active are    *)
(* never both true.                                                        *)
C8_PhaseOrder ==
    /\ [](~(is_discovering_toc /\ scholar_mode_active))
    /\ [][/\ MainPhase' \in {MainPhase, MainPhase + 1}
          /\ scholar_mode_active =>
                (scholar_mode_active' /\ m_steps' \cap {"scout", "sync"} = {})]_vars

(* C8 witness: a later page of the scholar phase, after a scout trigger    *)
(* and a sync phase that buffered pages.                                   *)
C8_Witness ==
    /\ scholar_mode_active /\ ~is_discovering_toc
    /\ m_steps = {"scholar"}
    /\ Len(full_toc_buffer) >= 2
    /\ Len(final_output) >= 2

-----------------------------------------------------------------------------
(* Properties of run_scout_sync, checked under SpecScout.                  *)

(* C9: a scout trigger is accepted only on a page <= SCOUT_LIMIT, and a    *)
(* run in which no page of the first SCOUT_LIMIT pages had both a keyword  *)
(* and an anchor from the probe returns None.                              *)
C9_ScoutBoundedByLimit ==
    /\ \A p \in s_accepted : p <= SCOUT_LIMIT
    /\ (s_pc = "returned" /\ s_accepted \cap (1..SCOUT_LIMIT) = {}) => s_result = None

-----------------------------------------------------------------------------
(* Properties of ContextTracker.update, checked under SpecCtx.             *)

(* C10: for a text of at least 2 characters, update(CHAPTER, t) with t not *)
(* the current chapter sets chapter and current_chapter_verify to t and    *)
(* section, activity and example to null; with t the current chapter it    *)
(* changes nothing; update(SECTION, s) with s not the current section sets *)
(* section to s, activity and example to null, and keeps the chapter.      *)
C10_ContextResetLaw ==
    (c_called /\ Len(c_text) >= 2) =>
        /\ (c_role = "CHAPTER" /\ c_pre.chapter # Some(c_text)) =>
               ctx = [chapter |-> Some(c_text),
                      current_chapter_verify |-> Some(c_text),
                      section |-> None, activity |-> None, example |-> None]
        /\ (c_role = "CHAPTER" /\ c_pre.chapter = Some(c_text)) => ctx = c_pre
        /\ (c_role = "SECTION" /\ c_pre.section # Some(c_text)) =>
               ctx = [c_pre EXCEPT !.section = Some(c_text),
                                   !.activity = None, !.example = None]

(* C10 witness: the current chapter was repeated while a section, an       *)
(* activity and an example were set, and they are still set.               *)
C10_Witness ==
    /\ c_called /\ c_role = "CHAPTER" /\ Len(c_text) >= 2
    /\ c_pre.chapter = Some(c_text)
    /\ c_pre.section # None /\ c_pre.activity # None /\ c_pre.example # None
    /\ ctx = c_pre

-----------------------------------------------------------------------------
(* Properties of StructuralMatcher.resolve_hierarchy, checked under        *)
(* SpecMatcher.                                                            *)

(* Positions of the entries whose page range contains the page of the     *)
(* last call.                                                              *)
RangeHits ==
    {i \in 1..Len(mt_index) :
        /\ mt_page # None
        /\ mt_index[i].start_page # None
        /\ Val(mt_index[i].start_page) <= Val(mt_page)
        /\ (mt_index[i].end_page = None
               \/ Val(mt_page) <= Val(mt_index[i].end_page))}

(* C11: when the page lies in the range of at least one entry the result   *)
(* is the first such entry in list order, whatever the text is, and the    *)
(* fuzzy fallback is not consulted; the fallback is consulted only when no *)
(* range contains the page or the page is null; when neither step matches  *)
(* the result is null.                                                     *)
C11_RangeBeforeFuzzy ==
    mt_called =>
        /\ RangeHits # {} =>
              /\ mt_ret = Some(mt_index[CHOOSE i \in RangeHits :
                                           \A j \in RangeHits : i <= j])
              /\ ~mt_fuzzy
        /\ mt_fuzzy => RangeHits = {}
        /\ (RangeHits = {} /\ mt_ret # None) =>
              /\ mt_fuzzy
              /\ \E i \in 1..Len(mt_index) :
                    /\ mt_ret = Some(mt_index[i])
                    /\ mt_index[i].chapter_name # None
                    /\ Ratio(CleanQuery(Val(mt_text)),
                             CleanQuery(Val(mt_index[i].chapter_name)))
                          >= FuzzyCutoff
        /\ (RangeHits = {} /\ ~mt_fuzzy) => mt_ret = None

(* C11 witness: page 15 lies in the ranges of both entries, the text names *)
(* the second entry, and the first entry was returned.                     *)
C11_Witness ==
    /\ mt_called
    /\ Len(mt_index) = 2
    /\ RangeHits = {1, 2}
    /\ mt_index[1] # mt_index[2]
    /\ mt_text = Some("Line")
    /\ mt_index[2].chapter_name = Some("Chapter 1 Lines")
    /\ mt_ret = Some(mt_index[1])

-----------------------------------------------------------------------------
(* Properties of TOCProcessorAPI.transform_logic, checked under SpecToc.   *)

(* chapter_id of the entry appended last, 0 before the first one.          *)
LastAcceptedId ==
    IF structured_data = <<>> THEN 0
    ELSE structured_data[Len(structured_data)].chapter_id

(* C12: a line whose leading chapter id is less than the last accepted id, *)
(* or more than 5 greater than it, is not appended and does not change the *)
(* last accepted id; the last accepted id starts at 0 and is carried over  *)
(* from one page to the next.                                              *)
C12_OutOfWindowRejected ==
    /\ last_chapter_id = 0
    /\ [][/\ (tc_pc = "scan") => (last_chapter_id = LastAcceptedId)
          /\ (/\ tc_lines' = tc_lines + 1
              /\ tc_line' # None
              /\ \/ Val(tc_line').id < LastAcceptedId
                 \/ Val(tc_line').id > LastAcceptedId + 5)
             => /\ structured_data' = structured_data
                /\ last_chapter_id' = last_chapter_id
          /\ (tc_page' # tc_page) => (last_chapter_id' = last_chapter_id)]_vars

(* C12 witness: on the second page, after chapter 2 was accepted on an     *)
(* earlier page, a line with id 1 was read and nothing was appended.       *)
C12_Witness ==
    /\ tc_pc = "scan" /\ tc_page = 2
    /\ Len(structured_data) = 1
    /\ structured_data[1].chapter_id = 2
    /\ last_chapter_id = 2
    /\ tc_lines = 2
    /\ tc_line # None /\ Val(tc_line).id = 1 /\ Val(tc_line).named

(* C13: in the returned list each entry's chapter_id is not less than the  *)
(* previous entry's and exceeds it by at most 5.                           *)
C13_IdsMonotoneBoundedJump ==
    tc_pc = "returned" =>
        \A i \in 1..(Len(structured_data) - 1) :
            /\ structured_data[i + 1].chapter_id >= structured_data[i].chapter_id
            /\ structured_data[i + 1].chapter_id
                  <= structured_data[i].chapter_id + 5

(* C14, as stated: every entry but the last without end_page whose next    *)
(* entry has a start_page gets next start_page - 1; an entry with an       *)
(* end_page is unchanged; a second back-fill changes nothing.              *)
C14_BackfillAsStated ==
    tc_pc = "returned" =>
        /\ Len(structured_data) = Len(tc_pre)
        /\ \A i \in 1..Len(tc_pre) :
              /\ (/\ i < Len(tc_pre)
                  /\ tc_pre[i].end_page = None
                  /\ tc_pre[i + 1].start_page # None)
                 => structured_data[i].end_page
                       = Some(Val(tc_pre[i + 1].start_page) - 1)
              /\ tc_pre[i].end_page # None => structured_data[i] = tc_pre[i]
        /\ Backfill(structured_data) = structured_data

(* C14, amended: the end_page is filled when the next start_page is        *)
(* present and not 0; every other entry, the last one included, is         *)
(* unchanged; only end_page is ever written; a second back-fill changes    *)
(* nothing.                                                                *)
C14_BackfillNonZeroStart ==
    tc_pc = "returned" =>
        /\ Len(structured_data) = Len(tc_pre)
        /\ \A i \in 1..Len(tc_pre) :
              IF /\ i < Len(tc_pre)
                 /\ tc_pre[i].end_page = None
                 /\ tc_pre[i + 1].start_page # None
                 /\ Val(tc_pre[i + 1].start_page) # 0
              THEN structured_data[i] =
                       [tc_pre[i] EXCEPT !.end_page =
                            Some(Val(tc_pre[i + 1].start_page) - 1)]
              ELSE structured_data[i] = tc_pre[i]
        /\ Backfill(structured_data) = structured_data

(* C14 witness: the first of two entries had no end_page, the second       *)
(* starts at page 10 and ends at 20; the first got end_page 9.             *)
C14_Witness ==
    /\ tc_pc = "returned"
    /\ Len(tc_pre) = 2
    /\ tc_pre[1].end_page = None
    /\ tc_pre[2].start_page = Some(10) /\ tc_pre[2].end_page = Some(20)
    /\ structured_data[1].end_page = Some(9)
    /\ structured_data[2] = tc_pre[2]

-----------------------------------------------------------------------------
(* Properties of bind_figures, checked under SpecBind.                     *)

(* Positions of the VISUAL blocks that are immediately followed by a       *)
(* FIGURE_CAPTION block.                                                   *)
VisualBeforeCaption ==
    {i \in 1..(Len(bf_blocks) - 1) :
        /\ bf_blocks[i].content_label = "VISUAL"
        /\ bf_blocks[i + 1].semantic_role = "FIGURE_CAPTION"}

(* The blocks at the positions of keep, in order, those at the positions   *)
(* of bound carrying the text of their successor as caption.               *)
RECURSIVE KeptFrom(_, _, _)
KeptFrom(i, keep, bound) ==
    IF i > Len(bf_blocks) THEN <<>>
    ELSE LET b == IF i \in bound
                  THEN [bf_blocks[i] EXCEPT
                            !.caption = Some(bf_blocks[i + 1].text)]
                  ELSE bf_blocks[i]
         IN  IF i \in keep THEN <<b>> \o KeptFrom(i + 1, keep, bound)
             ELSE KeptFrom(i + 1, keep, bound)

(* C15, as stated: every VISUAL block immediately followed by a            *)
(* FIGURE_CAPTION block gets that block's text as caption and that block   *)
(* is left out; every other block is returned as is, in order.             *)
C15_BindAsStated ==
    bf_called =>
        LET dropped == {i + 1 : i \in VisualBeforeCaption}
        IN  bf_ret = KeptFrom(1, (1..Len(bf_blocks)) \ dropped,
                              VisualBeforeCaption)

(* Positions taken as the caption of their predecessor when the list is    *)
(* read front to back: a block taken as a caption binds no caption itself. *)
RECURSIVE TakenUpTo(_)
TakenUpTo(n) ==
    IF n <= 1 THEN {}
    ELSE LET before == TakenUpTo(n - 1)
         IN  IF /\ (n - 1) \in VisualBeforeCaption
                /\ (n - 1) \notin before
             THEN before \cup {n}
             ELSE before

(* C15, amended: reading front to back, every VISUAL block that was not    *)
(* itself taken as a caption and is immediately followed by a              *)
(* FIGURE_CAPTION block gets that block's text as caption, and that block  *)
(* is left out; every other block is returned as is, in order; the result  *)
(* has one element fewer per bound caption.                                *)
C15_BindFrontToBack ==
    bf_called =>
        LET taken == TakenUpTo(Len(bf_blocks))
            bound == {i - 1 : i \in taken}
        IN  /\ bf_ret = KeptFrom(1, (1..Len(bf_blocks)) \ taken, bound)
            /\ Len(bf_ret) = Len(bf_blocks) - Cardinality(bound)

(* C15 witness: [VISUAL, FIGURE_CAPTION "b"] gave one VISUAL block with    *)
(* caption "b".                                                            *)
C15_Witness ==
    /\ bf_called
    /\ Len(bf_blocks) = 2
    /\ bf_blocks[1].content_label = "VISUAL"
    /\ bf_blocks[1].semantic_role = "BODY"
    /\ bf_blocks[2].content_label = "Text"
    /\ bf_blocks[2].semantic_role = "FIGURE_CAPTION"
    /\ bf_blocks[2].text = "b"
    /\ bf_ret = <<[bf_blocks[1] EXCEPT !.caption = Some("b")]>>

-----------------------------------------------------------------------------
(* Properties of SemanticClassifier.classify, checked under SpecClassify.  *)

(* The text is a number and nothing else. *)
OnlyANumber(text) ==
    text # <<>> /\ \A i \in 1..Len(text) : text[i] \in Digits

(* The text starts with word, whitespace and a number of the form N.N.     *)
StartsWithReference(text, words) ==
    /\ text # <<>> /\ text[1] \in words
    /\ LET k == RunEnd(text, 2, {" "})
       IN  k > 2 /\ DecimalAt(text, k)

(* C16: a text that is only a number gets role PAGE_NUMBER with that       *)
(* number as page_number; a text starting with a figure reference gets     *)
(* FIGURE_CAPTION; a text starting with Exercise N.N gets SECTION; the     *)
(* empty text gets UNKNOWN with empty clean_text.                          *)
C16_ClassifyExamples ==
    cl_called =>
        /\ OnlyANumber(cl_text) =>
              /\ cl_ret.role = "PAGE_NUMBER"
              /\ cl_ret.page_number = Some(DigitRun(cl_text, 1, 0))
        /\ StartsWithReference(cl_text, {"Fig.", "Figure"}) =>
              cl_ret.role = "FIGURE_CAPTION"
        /\ StartsWithReference(cl_text, {"Exercise"}) =>
              cl_ret.role = "SECTION"
        /\ cl_text = <<>> =>
              (cl_ret.role = "UNKNOWN" /\ cl_ret.clean_text = <<>>)

(* C17: every text whose cleaned form contains a backslash, ^, _, { or }   *)
(* gets role EQUATION.                                                     *)
C17_MathIsEquation ==
    cl_called =>
        ((\E i \in 1..Len(cl_ret.clean_text) :
             cl_ret.clean_text[i] \in {"\\frac", "^", "_", "{", "}"})
            => cl_ret.role = "EQUATION")

-----------------------------------------------------------------------------
(* Properties of main's exits, checked under SpecMain.                     *)

(* C18: when the run is cut short during the scholar phase (interrupt      *)
(* between pages, or an exception outside the per-page guard) the final    *)
(* JSON is still written and holds every block of the pages completed      *)
(* before.                                                                 *)
C18_InterruptedRunWritesJson ==
    (m_pc \in {"interrupted", "crashed"} /\ scholar_mode_active) =>
        json_written = Some(final_output)

(* C19: the PDF handle main opened is closed on every exit path: normal    *)
(* completion, the scout-limit return and a top-level exception.           *)
C19_PdfClosedOnExit ==
    m_pc \in {"finalized", "aborted", "crashed"} => ~pdf_open

-----------------------------------------------------------------------------
(* Properties of finalize_output, checked under SpecFinalize.              *)

(* C20: the staging file is removed only after the consolidated final JSON *)
(* has been written; when writing the final JSON fails, or no blocks were  *)
(* staged, the staging file is left in place.                              *)
C20_StagingRemovedAfterFinal ==
    /\ [][(fo_temp # None /\ fo_temp' = None) => fo_final = "complete"]_vars
    /\ []((fo_pc = "raised" /\ fo_final # "complete") => fo_temp = fo_temp0)
    /\ [](fo_total_blocks = 0 => fo_temp = fo_temp0)

(* C20 witness: a staging file of two lines was consolidated and then      *)
(* removed.                                                                *)
C20_Witness ==
    /\ fo_pc = "done"
    /\ fo_temp0 = Some([lines |-> 2, corrupt |-> FALSE])
    /\ fo_final = "complete" /\ fo_final_data = 2
    /\ fo_temp = None


(* C21: in the page loop a processed page is buffered exactly when the     *)
(* offset is still null after it was resolved, nothing is yielded while    *)
(* the offset is null, and once the tracker offset is locked the pending   *)
(* buffer is empty and stays empty for the rest of the run.                *)
C21_BufferEmptyOnceLocked ==
    /\ (e_pc = "loop" /\ offset = None) =>
           /\ emitted = <<>>
           /\ [i \in 1..Len(pending_buffer) |-> pending_buffer[i].page] = processed
    /\ offset # None => pending_buffer = <<>>


(* The block_index values of the emitted records, in emission order.       *)
RECURSIVE EmittedIndexes(_)
EmittedIndexes(batches) ==
    IF batches = <<>> THEN <<>>
    ELSE [j \in 1..Len(Head(batches).recs) |-> Head(batches).recs[j].block_index]
         \o EmittedIndexes(Tail(batches))

(* C29: the block_index values of the emitted records are 1, 2, 3, ... in  *)
(* emission order across all batches, whichever flush emitted them.        *)
C29_BlockIndexConsecutive ==
    LET idx == EmittedIndexes(emitted) IN
    \A k \in 1..Len(idx) : idx[k] = k


(* The pages first..last in ascending order.                               *)
PageRun(first, last) == [i \in 1..(last - first + 1) |-> first + i - 1]

(* C22: a report names as content_start_page the page on which the anchor  *)
(* matched, and its toc_pages are exactly the consecutive pages from the   *)
(* accepted scout-trigger page up to content_start_page - 1, ascending.    *)
C22_TocPagesAreTheRun ==
    s_result # None =>
        /\ state.sync_completed
        /\ Val(s_result).content_start_page = s_page_no
        /\ \E a \in s_accepted :
              Val(s_result).toc_pages =
                  PageRun(a, Val(s_result).content_start_page - 1)


(* C23: run_sync_phase answers false for a null anchor, the sync phase is  *)
(* never entered with a null anchor (is_discovering_toc implies a non-null *)
(* target_anchor at every loop head), and a run in which no probe gave an  *)
(* anchor returns no report.                                               *)
C23_NoSyncWithoutAnchor ==
    /\ RunSyncPhaseOutcomes(None) = {FALSE}
    /\ state.is_discovering_toc => state.target_anchor # None
    /\ (s_pc = "returned" /\ s_accepted = {}) => s_result = None

(* A run with a failed probe and no successful one has returned.           *)
C23_Witness ==
    /\ s_pc = "returned" /\ s_probe_failures > 0 /\ s_accepted = {}
    /\ state.toc_buffer # <<>> /\ s_result = None


-----------------------------------------------------------------------------
(* Properties of get_toc_metadata, checked under SpecTocMeta.              *)

(* What resolve_hierarchy(page, None) gives over the same list, reduced to *)
(* the two fields get_toc_metadata returns.                                *)
MatcherMetadata(h_data, page) ==
    LET node == ResolveHierarchy(h_data, page, None).ret IN
    IF node = None THEN NullMetadata
    ELSE [chapter_id |-> Val(node).chapter_id,
          chapter_name |-> Val(node).chapter_name]

(* C30: get_toc_metadata returns the chapter_id and chapter_name of the    *)
(* entry resolve_hierarchy(page, None) returns over the same list, and     *)
(* null fields when that returns null.                                     *)
C30_TocMetadataIsRangeMatch ==
    gm_called => gm_ret = Some(MatcherMetadata(gm_in[1], gm_in[2]))

(* A call whose first entry does not hold the page and whose second,       *)
(* open-ended entry does.                                                  *)
C30_Witness ==
    /\ gm_called /\ Len(gm_in[1]) = 2 /\ gm_in[2] = Some(15)
    /\ gm_in[1][1].end_page = Some(9) /\ gm_in[1][1].start_page = Some(1)
    /\ gm_in[1][2].end_page = None /\ gm_in[1][2].start_page = Some(10)
    /\ Val(gm_ret).chapter_id = gm_in[1][2].chapter_id


-----------------------------------------------------------------------------
(* Properties of the block loops, checked under SpecBlocks.                *)

(* bind_figures read with the VISUAL class of the layout label: the loop   *)
(* from position i on, front to back.                                      *)
RECURSIVE BindByClassFrom(_, _, _, _)
BindByClassFrom(blocks, i, skip, merged) ==
    IF i > Len(blocks) THEN merged
    ELSE IF skip THEN BindByClassFrom(blocks, i + 1, FALSE, merged)
    ELSE LET curr == blocks[i]
             binds == /\ LabelGroup(curr.content_label) = "VISUAL"
                      /\ i + 1 <= Len(blocks)
                      /\ blocks[i + 1].semantic_role = "FIGURE_CAPTION"
             out == IF binds
                    THEN [curr EXCEPT !.caption = Some(blocks[i + 1].text)]
                    ELSE curr
         IN  BindByClassFrom(blocks, i + 1, binds, Append(merged, out))

(* C27: on a page of main's scholar phase a block from a box of the VISUAL *)
(* class (Picture, Figure, Image, Graphic) that is immediately followed by *)
(* a FIGURE_CAPTION block is emitted with that block's text as caption,    *)
(* and the caption block is not emitted.                                   *)
C27_ScholarBindsVisuals ==
    (bl_called /\ bl_in[1] = "main") =>
        Val(bl_ret) = BindByClassFrom(ScholarBlocks(bl_in[2]), 1, FALSE, <<>>)

(* C28: in both block loops no emitted block comes from a box labelled     *)
(* PageFooter or Footnote and none has the role PAGE_NUMBER.               *)
C28_FooterAndPageNumberDropped ==
    bl_called =>
        \A j \in 1..Len(Val(bl_ret)) :
            /\ Val(bl_ret)[j].content_label \notin {"PageFooter", "Footnote"}
            /\ Val(bl_ret)[j].semantic_role # "PAGE_NUMBER"


-----------------------------------------------------------------------------
(* Properties of run_sync_phase, checked under SpecSync.                   *)

(* x occurs in y as a substring.                                           *)
IsSubstring(x, y) ==
    \E i \in 0..(Len(y) - Len(x)) : SubSeq(y, i + 1, i + Len(x)) = x

(* The match rule as stated, on lowercased texts.                          *)
MatchRule(anchor, detected) ==
    \/ IsSubstring(anchor, detected)
    \/ IsSubstring(detected, anchor)
    \/ WordSet(anchor) \subseteq WordSet(detected)

(* C24: when one of the first three boxes has a heading-like label, its    *)
(* top edge in the upper 30% of the page and a non-empty detected text     *)
(* that holds the anchor as a substring, or is a substring of the anchor,  *)
(* or holds every word of the anchor, case-insensitively, run_sync_phase   *)
(* returns true.                                                           *)
C24_SyncMatchRule ==
    (sy_called /\ sy_in[1] # None) =>
        LET anchor == Lower(Val(sy_in[1]))
            boxes == sy_in[2]
        IN  (\E i \in 1..Len(boxes) :
                /\ i <= SyncBoxLimit
                /\ SyncCandidate(boxes[i])
                /\ DetectedText(boxes[i]) # <<>>
                /\ MatchRule(anchor, DetectedText(boxes[i])))
            => Val(sy_ret) = TRUE


-----------------------------------------------------------------------------
(* Properties of find_printed_page_no, checked under SpecStrategy.         *)

(* C25: with AUTO the result is the header detector's when non-null, else  *)
(* the footer detector's when non-null, else the corner detector's; with   *)
(* HEADER, FOOTER or CORNERS it is that detector's; and on a page with at  *)
(* least one box nothing is raised when no number is found.                *)
C25_StrategyOrder ==
    ps_called =>
        LET boxes == ps_in[2]
            h == DetectFromHeader(boxes).value
            f == DetectFromFooter(boxes).value
            c == DetectFromCorners(boxes).value
            r == Val(ps_ret)
        IN  /\ boxes # <<>> => ~r.raised
            /\ ~r.raised =>
                 r.value = CASE ps_in[1] = "HEADER"  -> h
                             [] ps_in[1] = "FOOTER"  -> f
                             [] ps_in[1] = "CORNERS" -> c
                             [] ps_in[1] = "AUTO"    ->
                                  IF h # None THEN h
                                  ELSE IF f # None THEN f ELSE c


-----------------------------------------------------------------------------
(* Properties of get_unified_sorting, checked under SpecSorting.           *)

(* C26: the list returned holds every box passed in exactly once, rows     *)
(* top to bottom and the boxes of a row left to right.                     *)
C26_SortingIsPermutation ==
    us_called =>
        LET raw == us_in[1]
            ret == Val(us_ret)
        IN  /\ Len(ret) = Len(raw)
            /\ \A i \in 1..Len(raw) : \E j \in 1..Len(ret) : ret[j] = raw[i]
            /\ \A j \in 1..(Len(ret) - 1) :
                  \/ ret[j].y <= ret[j + 1].y
                  \/ /\ AbsDiff(ret[j].y, ret[j + 1].y) <= SortTolerance
                     /\ ret[j].x <= ret[j + 1].x

=============================================================================
